---------------------------- MODULE Spec2Model ----------------------------
(***************************************************************************)
(* A model of the collective key-switching protocol (dckks/keyswitching.go),*)
(* of the ciphertext evaluator (ckks evaluator) and of the sparse ternary   *)
(* sampler (ring) of lattigo.                                               *)
(*                                                                         *)
(* Polynomials are RNS matrices: a sequence of rows, one per modulus, each *)
(* row a tuple of N residues.  The ring is Z_q[X]/(X^N + 1): N = RingN = 2 *)
(* for the protocol and the arithmetic of the evaluator, so that the NTT   *)
(* is a real transform (not the identity) and the two halves of a row are  *)
(* distinct, and N = RotRingN for the column rotations, whose slots need a *)
(* larger ring.                                                            *)
(***************************************************************************)
EXTENDS Integers, Sequences, FiniteSets, TLC

(***************************************************************************)
(* Ring context.  The moduli are primes congruent to 1 modulo 2*N for both *)
(* ring degrees in use: RingN, and RotRingN for the slot rotations.        *)
(***************************************************************************)
QMod == <<97, 193, 257>>
PMod == <<353>>
QPMod == QMod \o PMod
NumQ == Len(QMod)
NumP == Len(PMod)
RingN == Len(<<0, 0>>)
Slots == 1..RingN
RotRingN == 8 * RingN
Degrees == {RingN, RotRingN}

RECURSIVE PowMod(_, _, _)
PowMod(b, e, q) == IF e = 0 THEN 1 % q ELSE (b * PowMod(b, e - 1, q)) % q

RECURSIVE ProdSeq(_)
ProdSeq(s) == IF s = <<>> THEN 1 ELSE Head(s) * ProdSeq(Tail(s))

ModSet == {QPMod[i] : i \in 1..Len(QPMod)}

\* A function as the table of its values: what a slice in memory is.
Stored(f) == CHOOSE g \in {f} : g = g

\* A local variable: Body at the value of e, which is computed once.
With(e, Body(_)) == CHOOSE r \in {Body(x) : x \in {e}} : TRUE

\* The Montgomery radix R = 2^64 modulo q, and its inverse.
MontR == [q \in ModSet |-> PowMod(2, 64, q)]
MontRInv == [q \in ModSet |-> CHOOSE x \in 1..(q - 1) : (x * MontR[q]) % q = 1]
InvOf(a, q) == CHOOSE x \in 1..(q - 1) : (x * a) % q = 1
\* psi: a primitive 2n-th root of unity modulo q (psi^n = -1), its powers,
\* and the inverse of n.
PsiOf == [q \in ModSet |-> [n \in Degrees |-> CHOOSE x \in 1..(q - 1) : PowMod(x, n, q) = q - 1]]
PsiPow == [q \in ModSet |-> [n \in Degrees |-> [e \in 0..(2 * n - 1) |-> PowMod(PsiOf[q][n], e, q)]]]
NInv == [q \in ModSet |-> [n \in Degrees |-> InvOf(n, q)]]
NttPsi == [q \in ModSet |-> PsiOf[q][RingN]]

MForm(a, q) == (a * MontR[q]) % q
MRed(a, b, q) == (a * b * MontRInv[q]) % q
InvMForm(a, q) == (a * MontRInv[q]) % q

\* The value at psi^step of the polynomial with coefficients r[1..k].
RECURSIVE EvalAt(_, _, _, _, _)
EvalAt(r, pw, step, k, q) ==
    IF k = 0 THEN 0
    ELSE (EvalAt(r, pw, step, k - 1, q) + r[k] * pw[(step * (k - 1)) % (2 * Len(r))]) % q

\* Sum over the slots 1..j of r[j] * psi^-((2j - 1) * (k - 1)).
RECURSIVE Interpolate(_, _, _, _, _)
Interpolate(r, pw, k, j, q) ==
    IF j = 0 THEN 0
    ELSE (Interpolate(r, pw, k, j - 1, q)
            + r[j] * pw[(2 * Len(r) - (((2 * j - 1) * (k - 1)) % (2 * Len(r)))) % (2 * Len(r))]) % q

NTTTable(r, q) ==
    Stored([j \in 1..Len(r) |-> EvalAt(r, PsiPow[q][Len(r)], 2 * j - 1, Len(r), q)])
InvNTTTable(r, q) ==
    Stored([k \in 1..Len(r) |->
        (Interpolate(r, PsiPow[q][Len(r)], k, Len(r), q) * NInv[q][Len(r)]) % q])

\* Forward and inverse negacyclic NTT of one row: slot j holds the value of
\* the polynomial at psi^(2j - 1).
NTTRow(r, q) == NTTTable(Stored(r), q)
InvNTTRow(r, q) == InvNTTTable(Stored(r), q)

ZeroRowN(n) == [k \in 1..n |-> 0]
ZeroRow == ZeroRowN(RingN)
ZeroPolyN(rows, n) == [i \in 1..rows |-> ZeroRowN(n)]
ZeroPoly(rows) == ZeroPolyN(rows, RingN)

\* ring.NewPoly of the three rings.
NewPolyQ == ZeroPoly(NumQ)
NewPolyP == ZeroPoly(NumP)
NewPolyQP == ZeroPoly(NumQ + NumP)

\* A Go index expression p.Coeffs[i], i < level+1, is in range on p.
Fits(level, p) == level + 1 <= Len(p)

\* The "Lvl" operations act on rows 0..level (here 1..level+1) of the
\* receiver p3 and leave its higher rows untouched.
AddLvl(level, p1, p2, p3) ==
    Stored([i \in 1..Len(p3) |->
        IF i <= level + 1
        THEN [k \in DOMAIN p1[i] |-> (p1[i][k] + p2[i][k]) % QMod[i]]
        ELSE p3[i]])

SubLvl(level, p1, p2, p3) ==
    Stored([i \in 1..Len(p3) |->
        IF i <= level + 1
        THEN [k \in DOMAIN p1[i] |-> (p1[i][k] + (QMod[i] - p2[i][k])) % QMod[i]]
        ELSE p3[i]])

NegLvl(level, p1, p2) ==
    Stored([i \in 1..Len(p2) |->
        IF i <= level + 1
        THEN [k \in DOMAIN p1[i] |-> (QMod[i] - p1[i][k]) % QMod[i]]
        ELSE p2[i]])

CopyLvl(level, p1, p2) ==
    Stored([i \in 1..Len(p2) |-> IF i <= level + 1 THEN p1[i] ELSE p2[i]])

MulCoeffsMontgomeryLvl(level, p1, p2, p3) ==
    Stored([i \in 1..Len(p3) |->
        IF i <= level + 1
        THEN [k \in DOMAIN p1[i] |-> MRed(p1[i][k], p2[i][k], QMod[i])]
        ELSE p3[i]])

MulCoeffsMontgomeryAndAddNoModLvl(level, p1, p2, p3) ==
    Stored([i \in 1..Len(p3) |->
        IF i <= level + 1
        THEN [k \in DOMAIN p1[i] |-> p3[i][k] + MRed(p1[i][k], p2[i][k], QMod[i])]
        ELSE p3[i]])

MFormLvl(level, p1, p2) ==
    Stored([i \in 1..Len(p2) |->
        IF i <= level + 1
        THEN [k \in DOMAIN p1[i] |-> MForm(p1[i][k], QMod[i])]
        ELSE p2[i]])

MulScalarBigintLvl(level, p1, scalar, p2) ==
    Stored([i \in 1..Len(p2) |->
        IF i <= level + 1
        THEN [k \in DOMAIN p1[i] |-> (p1[i][k] * (scalar % QMod[i])) % QMod[i]]
        ELSE p2[i]])

\* ringP.ModulusBigint: the product of the auxiliary moduli.
ModulusBigintP == ProdSeq(PMod)

\* ringQP.NTT on every row of a QP polynomial.
NTTQP(p) == [i \in 1..Len(p) |-> NTTRow(p[i], QPMod[i])]

\* The integer in [0, P) with the given residues modulo the moduli of P:
\* sum of res[j] * (P/p_j) * ((P/p_j)^-1 mod p_j), modulo P.
PHat == [j \in 1..NumP |-> ModulusBigintP \div PMod[j]]
PHatInv == [j \in 1..NumP |-> IF NumP = 1 THEN 1 ELSE InvOf(PHat[j] % PMod[j], PMod[j])]
RECURSIVE CRTSumP(_, _)
CRTSumP(res, j) ==
    IF j = 0 THEN 0
    ELSE (CRTSumP(res, j - 1) + res[j] * PHat[j] * PHatInv[j]) % ModulusBigintP
CRTLiftP(res) == CRTSumP(res, NumP)
\* P^-1 modulo each modulus of Q.
PInvQ == [i \in 1..NumQ |-> InvOf(ModulusBigintP % QMod[i], QMod[i])]

\* ModDownSplitNTTPQ(level, p1Q, p1P, p2): p2 = (p1Q - p1P) / P modulo Q on
\* rows 0..level.  The P rows leave the NTT domain, are extended to the
\* basis Q, return to the NTT domain and are subtracted; the difference is
\* multiplied by P^-1.
ModDownExtend(p1P) ==
    With(Stored([j \in 1..NumP |->
            InvNTTRow([k \in DOMAIN p1P[j] |-> p1P[j][k] % PMod[j]], PMod[j])]),
         LAMBDA coeffP :
            Stored([k \in DOMAIN p1P[1] |-> CRTLiftP([j \in 1..NumP |-> coeffP[j][k]])]))
ModDownRow(rowQ, lifted, i) ==
    With(NTTRow([k \in DOMAIN lifted |-> lifted[k] % QMod[i]], QMod[i]), LAMBDA ext :
        [k \in DOMAIN lifted |-> ((rowQ[k] + (QMod[i] - ext[k])) * PInvQ[i]) % QMod[i]])
ModDownSplitNTTPQ(level, p1Q, p1P, p2) ==
    With(ModDownExtend(p1P), LAMBDA lifted :
        Stored([i \in 1..Len(p2) |->
            IF i <= level + 1 THEN ModDownRow(p1Q[i], lifted, i) ELSE p2[i]]))


(***************************************************************************)
(* State.                                                                  *)
(***************************************************************************)
VARIABLES
    ct,        \* the ciphertext every party reads: [value, scale]
    ctIn,      \* the ciphertext as it was handed to the protocol
    ctOut,     \* the receiver of KeySwitch when it is not ct itself
    sk,        \* per party: the stored key shares skInput, skOutput
    skCoeffs,  \* per party: the ternary coefficients behind sk
    sigmaArg,  \* the sigmaSmudging argument every party gave NewCKSProtocol
    cks,       \* per party: the CKSProtocol instance
    pc,        \* per party: position inside GenShare
    share,     \* share polynomials: 0 is a spare from AllocateShare, p is party p's
    members,   \* per share: the parties whose contributions it holds
    noise,     \* per party: the coefficients the Gaussian sampler returned
    reads,     \* per party: reads of the sampler in the current GenShare
    steps,     \* per party: the steps of GenShare executed so far
    agg,       \* the last AggregateShares call
    ks         \* the KeySwitch call

cksVars == <<ct, ctIn, ctOut, sk, skCoeffs, sigmaArg, cks, pc, share, members,
             noise, reads, steps, agg, ks>>

(***************************************************************************)
(* Bounds and inputs of the protocol runs.                                 *)
(***************************************************************************)
NumParties == 2
Parties == 1..NumParties
ShareIds == 0..NumParties

\* params.Sigma(), and the values a caller passes as sigmaSmudging.
ParamsSigma == 3
SigmaArgs == {ParamsSigma, 2 * ParamsSigma}

\* Additive key shares (ternary coefficients) a party may hold.
KeyPairs ==
    { [in |-> <<1, 0>>, out |-> <<0, 1>>],
      [in |-> <<-1, 1>>, out |-> <<1, 1>>] }

\* Coefficient vectors the Gaussian sampler may return.
NoiseCoeffs == { <<0, 0>>, <<-2, 6>> }

\* Input ciphertexts: one per level, NTT domain, degree 1.
CtRows0 == << <<3, 7>>, <<5, 1>>, <<2, 9>> >>
CtRows1 == << <<4, 11>>, <<0, 16>>, <<21, 8>> >>
CtInputs ==
    { [value |-> <<SubSeq(CtRows0, 1, l + 1), SubSeq(CtRows1, 1, l + 1)>>, scale |-> 4]
        : l \in 0..(NumQ - 1) }

Level(c) == Len(c.value[1]) - 1

\* A signed coefficient vector as a polynomial of the given moduli.
CoeffsToPoly(e, mods) == [i \in 1..Len(mods) |-> [k \in Slots |-> e[k] % mods[i]]]

\* A secret key as the key generator stores it: NTT domain, Montgomery form.
StoredKey(s) ==
    [i \in 1..Len(QPMod) |->
        LET r == NTTRow([k \in Slots |-> s[k] % QPMod[i]], QPMod[i])
        IN  [k \in Slots |-> MForm(r[k], QPMod[i])]]

(***************************************************************************)
(* NewCKSProtocol, AllocateShare.                                          *)
(***************************************************************************)
NewGaussianSampler(sigma, bound) == [sigma |-> sigma, bound |-> bound]

NewCKSProtocol(sigmaSmudging) ==
    [ sigmaSmudging   |-> 0,
      tmp             |-> NewPolyQP,
      tmpDelta        |-> NewPolyQ,
      hP              |-> NewPolyP,
      gaussianSampler |-> NewGaussianSampler(ParamsSigma, 6 * ParamsSigma) ]

AllocateShare == NewPolyQ

\* GaussianSampler.Read: what the sampler can write on a QP polynomial.
SamplerOutputs(sampler) ==
    {e \in NoiseCoeffs : \A k \in Slots : e[k] <= sampler.bound /\ -e[k] <= sampler.bound}

(***************************************************************************)
(* GenShare / genShareDelta, one step per statement.                       *)
(***************************************************************************)
GenShareOrder == <<"Sub", "Mul", "MulP", "Read", "AddQ", "LoadhP", "ModDown", "Zero">>

\* A GenShare that divides by P before the noise is added.
GenShareNextReduceFirst(at) ==
    LET order == <<"Sub", "Mul", "MulP", "ModDown", "Read", "AddQ", "LoadhP", "Zero">>
        i == CHOOSE j \in 1..Len(order) : order[j] = at
    IN  IF i = Len(order) THEN "done" ELSE order[i + 1]

\* The position following pc in GenShare.
GenShareNext(at) ==
    LET i == CHOOSE j \in 1..Len(GenShareOrder) : GenShareOrder[j] = at
    IN  IF i = Len(GenShareOrder) THEN "done" ELSE GenShareOrder[i + 1]

\* ringQ.Sub(skInput, skOutput, cks.tmpDelta)
StepSub(c, skIn, skOut) ==
    [c EXCEPT !.tmpDelta = SubLvl(NumQ - 1, skIn, skOut, c.tmpDelta)]

\* A GenShare that multiplies the key difference with ct[0].
StepMulFirstPart(c, cipher, shareOut) ==
    MulCoeffsMontgomeryLvl(Level(cipher), cipher.value[1], c.tmpDelta, shareOut)

\* ringQ.MulCoeffsMontgomeryLvl(ct.Level(), ct.Value()[1], skDelta, shareOut)
StepMul(c, cipher, shareOut) ==
    MulCoeffsMontgomeryLvl(Level(cipher), cipher.value[2], c.tmpDelta, shareOut)

\* ringQ.MulScalarBigintLvl(ct.Level(), shareOut, ringP.ModulusBigint, shareOut)
StepMulP(cipher, shareOut) ==
    MulScalarBigintLvl(Level(cipher), shareOut, ModulusBigintP, shareOut)

\* cks.gaussianSampler.Read(cks.tmp); ringQP.NTT(cks.tmp, cks.tmp)
StepRead(c, e) == [c EXCEPT !.tmp = NTTQP(CoeffsToPoly(e, QPMod))]

\* ringQ.AddLvl(ct.Level(), shareOut, cks.tmp, shareOut)
StepAddQ(c, cipher, shareOut) == AddLvl(Level(cipher), shareOut, c.tmp, shareOut)

\* the loop adding the P rows of tmp to hP, with plain (unreduced) +=
StepLoadhP(c) ==
    [c EXCEPT !.hP = [x \in 1..NumP |->
                        [j \in Slots |-> c.hP[x][j] + c.tmp[NumQ + x][j]]]]

\* cks.baseconverter.ModDownSplitNTTPQ(ct.Level(), shareOut, cks.hP, shareOut)
StepModDown(c, cipher, shareOut) ==
    ModDownSplitNTTPQ(Level(cipher), shareOut, c.hP, shareOut)

\* cks.hP.Zero(); cks.tmp.Zero()
StepZero(c) == [c EXCEPT !.hP = NewPolyP, !.tmp = NewPolyQP]

(***************************************************************************)
(* AggregateShares and KeySwitch.                                          *)
(***************************************************************************)
\* The level AggregateShares hands to AddLvl.
AggregateLevel(share1, share2) == Len(share1) - 1

\* AggregateShares(share1, share2, shareOut): the receiver afterwards.  The
\* rows are added in ascending order; a row index out of range on any of the
\* three polynomials stops the call after the rows below it were written.
AggregateShares(share1, share2, shareOut) ==
    LET level == AggregateLevel(share1, share2)
        upto  == CHOOSE n \in 0..(level + 1) :
                    /\ \A i \in 1..n : i <= Len(share1) /\ i <= Len(share2) /\ i <= Len(shareOut)
                    /\ \/ n = level + 1
                       \/ ~(n + 1 <= Len(share1) /\ n + 1 <= Len(share2) /\ n + 1 <= Len(shareOut))
    IN  [ poly  |-> AddLvl(upto - 1, share1, share2, shareOut),
          panic |-> upto < level + 1,
          rows  |-> upto ]

\* A KeySwitch that does not carry the scale over.
KeySwitchKeepScale(combined, cipher, out) ==
    LET v0 == AddLvl(Level(cipher), cipher.value[1], combined, out.value[1])
        v1 == CopyLvl(Level(cipher), cipher.value[2], out.value[2])
    IN  [out EXCEPT !.value = <<v0, v1>>]

\* KeySwitch(combined, ct, ctOut): the receiver afterwards.
KeySwitch(combined, cipher, out) ==
    LET scaled == [out EXCEPT !.scale = cipher.scale]
        v0 == AddLvl(Level(cipher), cipher.value[1], combined, scaled.value[1])
        v1 == CopyLvl(Level(cipher), cipher.value[2], scaled.value[2])
    IN  [scaled EXCEPT !.value = <<v0, v1>>]

KeySwitchInRange(combined, cipher, out) ==
    /\ Fits(Level(cipher), combined)
    /\ Fits(Level(cipher), out.value[1])
    /\ Fits(Level(cipher), out.value[2])


(***************************************************************************)
(* The evaluator: ciphertext elements.                                     *)
(*                                                                         *)
(* A part of an element is a polynomial whose Coeffs is a Go slice: `rows` *)
(* is the backing array (its length is the capacity) and `len` the length  *)
(* of the slice.  An element is [value, scale, isNTT]; a plaintext is an   *)
(* element of degree 0.                                                     *)
(***************************************************************************)
NewPart(n) == [rows |-> ZeroPoly(n), len |-> n]
Coeffs(part) == SubSeq(part.rows, 1, part.len)
SetCoeffs(part, poly) ==
    [part EXCEPT !.rows = poly \o SubSeq(part.rows, part.len + 1, Len(part.rows))]

ElDegree(el) == Len(el.value) - 1
ElLevel(el) == el.value[1].len - 1

MinUint64(x, y) == IF x <= y THEN x ELSE y
MaxUint64(x, y) == IF x >= y THEN x ELSE y
MaxFloat64(x, y) == IF x >= y THEN x ELSE y

\* NewCiphertextFromParams(params, degree, level, scale)
NewCiphertext(degree, level, scale) ==
    [value |-> Stored([u \in 1..(degree + 1) |-> NewPart(level + 1)]),
     scale |-> scale, isNTT |-> TRUE]

\* ckksElement.Resize: drops the parts above `degree`, or appends zero parts
\* at the element's level.
Resize(el, degree) ==
    IF ElDegree(el) > degree
    THEN [el EXCEPT !.value = SubSeq(@, 1, degree + 1)]
    ELSE [el EXCEPT !.value =
            @ \o [u \in 1..(degree - ElDegree(el)) |-> NewPart(ElLevel(el) + 1)]]

\* An unsigned 64-bit difference.  A value that wrapped around is kept as the
\* negative number it is congruent to modulo 2^64: it is larger than every
\* length and capacity, and sums and differences of such values stay exact.
Uint64Sub(x, y) == x - y
Uint64Wrapped(x) == x < 0

\* DropLevel(ct0, levels): every part's Coeffs is re-sliced to
\* [:level+1-levels], in order; a bound above the capacity panics, a bound
\* between length and capacity makes hidden rows of the backing array
\* visible again.  The result is [el, err, panic].
DropLevel(el, levels) ==
    IF ElLevel(el) = 0
    THEN [el |-> el, err |-> TRUE, panic |-> FALSE]
    ELSE LET level == ElLevel(el)
             bound == Uint64Sub(level + 1, levels)
             ok(u) == ~Uint64Wrapped(bound) /\ bound <= Len(el.value[u].rows)
             bad == {u \in 1..Len(el.value) : ~ok(u)}
             stop == IF bad = {} THEN Len(el.value) + 1
                     ELSE CHOOSE u \in bad : \A w \in bad : u <= w
         IN  [el |-> [el EXCEPT !.value =
                        [u \in 1..Len(el.value) |->
                            IF u < stop THEN [el.value[u] EXCEPT !.len = bound]
                            ELSE el.value[u]]],
              err |-> FALSE,
              panic |-> bad # {}]

(***************************************************************************)
(* The evaluator state: the heap `h` of elements (the caller's operands and*)
(* the evaluator's ctxpool) and the last call.                             *)
(***************************************************************************)
VARIABLES
    h,        \* element id -> element
    h0,       \* the heap before the call
    call      \* the call made: [op, op0, op1, out, key, status, reason] and, in
              \* mul, the operands' degrees and scales at the MulRelin call

evalVars == <<h, h0, call>>

Nil == "nil"
Panic(hp, why) == [h |-> hp, panic |-> TRUE, reason |-> why]
Return(hp) == [h |-> hp, panic |-> FALSE, reason |-> ""]

\* A getElemAndCheckBinary that accepts a receiver of any degree.
GetElemAndCheckBinaryAnyDegree(hp, op0, op1, opOut) ==
    IF op0 = Nil \/ op1 = Nil THEN "nil pointer dereference"
    ELSE IF ElDegree(hp[op0]) + ElDegree(hp[op1]) = 0 THEN "operands cannot be both plaintext"
    ELSE IF opOut = Nil THEN "nil pointer dereference"
    ELSE ""

\* getElemAndCheckBinary, with the evaluation of its fourth argument,
\* MaxUint64(op0.Degree(), op1.Degree()), at the call site: "" when the
\* operands pass, the panic otherwise.
GetElemAndCheckBinary(hp, op0, op1, opOut) ==
    IF op0 = Nil \/ op1 = Nil THEN "nil pointer dereference"
    ELSE IF ElDegree(hp[op0]) + ElDegree(hp[op1]) = 0 THEN "operands cannot be both plaintext"
    ELSE IF opOut = Nil THEN "nil pointer dereference"
    ELSE IF ElDegree(hp[opOut]) < MaxUint64(ElDegree(hp[op0]), ElDegree(hp[op1]))
         THEN "receiver operand degree is too small"
    ELSE ""

(***************************************************************************)
(* Constants of AddConst / MultByConst.  A constant is [type, re2, im2]:   *)
(* its real and imaginary parts counted in halves, so that 3 is re2 = 6    *)
(* and 1.5 is re2 = 3.                                                      *)
(***************************************************************************)
Abs(x) == IF x < 0 THEN -x ELSE x

\* The fractional part of value - float64(int64(value)) is not zero.
HasFraction(v2) == v2 % 2 # 0

\* scaleUpExact(value, n, q): |n * value| truncated to an integer, modulo q,
\* and q minus that for a negative value.
ScaleUpExact(v2, n, q) ==
    LET res == ((n * Abs(v2)) \div 2) % q
    IN  IF v2 < 0 THEN q - res ELSE res

CRed(a, q) == IF a >= q THEN a - q ELSE a

\* evaluator.ckksContext.scale
DefaultScale == 4

\* A scale that looks at the real part only.
ConstScaleOfReal(c) ==
    IF c.type \in {"complex128", "float64"} /\ c.re2 # 0 /\ HasFraction(c.re2)
    THEN DefaultScale ELSE 1

\* The scale MultByConst multiplies into the receiver's scale.
ConstScale(c) ==
    CASE c.type = "complex128" ->
            IF (c.re2 # 0 /\ HasFraction(c.re2)) \/ (c.im2 # 0 /\ HasFraction(c.im2))
            THEN DefaultScale ELSE 1
      [] c.type = "float64" ->
            IF c.re2 # 0 /\ HasFraction(c.re2) THEN DefaultScale ELSE 1
      [] OTHER -> 1

ConstReal(c) == c.re2
ConstImag(c) == IF c.type = "complex128" THEN c.im2 ELSE 0

\* The Montgomery-form factors MultByConst applies to the first and to the
\* second half of row i: a + b*psi and a - b*psi.
MultConstFactors(c, scale, i) ==
    LET q == QMod[i]
        sReal == IF ConstReal(c) # 0 THEN ScaleUpExact(ConstReal(c), scale, q) ELSE 0
        sImag == IF ConstImag(c) # 0
                 THEN MRed(ScaleUpExact(ConstImag(c), scale, q), MForm(NttPsi[q], q), q)
                 ELSE 0
        first == IF ConstImag(c) # 0 THEN CRed(sReal + sImag, q) ELSE sReal
        second == IF ConstImag(c) # 0 THEN CRed(sReal + (q - sImag), q) ELSE first
    IN  <<MForm(first, q), MForm(second, q)>>

UintConst(n) == [type |-> "uint64", re2 |-> 2 * n, im2 |-> 0]

\* MultByConst(ct0, constant, ctOut) on the elements: [el, panic], el being
\* the receiver afterwards.  A receiver with fewer parts than ct0 panics on
\* the first missing part, in row 0, after the first halves of the parts
\* below it were written.
MultByConst(el0, c, elOut) ==
    LET level == MinUint64(ElLevel(el0), ElLevel(elOut))
        scale == ConstScale(c)
        short == ElDegree(elOut) < ElDegree(el0)
        half == RingN \div 2
        newRow(u, i) ==
            LET f == MultConstFactors(c, scale, i)
                q == QMod[i]
            IN  [k \in Slots |->
                    IF short
                    THEN IF i = 1 /\ k <= half
                         THEN MRed(el0.value[u].rows[i][k], f[1], q)
                         ELSE elOut.value[u].rows[i][k]
                    ELSE MRed(el0.value[u].rows[i][k], f[IF k <= half THEN 1 ELSE 2], q)]
        newPart(u) ==
            IF u > Len(el0.value) THEN elOut.value[u]
            ELSE [elOut.value[u] EXCEPT !.rows =
                    [i \in 1..Len(@) |-> IF i <= level + 1 THEN newRow(u, i) ELSE @[i]]]
    IN  With([elOut EXCEPT !.value = [u \in 1..Len(@) |-> newPart(u)]],
             LAMBDA written :
                IF short THEN [el |-> written, panic |-> TRUE]
                ELSE [el |-> [written EXCEPT !.scale = el0.scale * scale],
                      panic |-> FALSE])

\* The terms AddConst adds to the first and to the second half of row i:
\* a + b*psi and a - b*psi, a and b scaled by ct0's scale.
AddConstTerms(c, scale, i) ==
    LET q == QMod[i]
        sReal == IF ConstReal(c) # 0 THEN ScaleUpExact(ConstReal(c), scale, q) ELSE 0
        sImag == IF ConstImag(c) # 0
                 THEN MRed(ScaleUpExact(ConstImag(c), scale, q), MForm(NttPsi[q], q), q)
                 ELSE 0
        first == IF ConstImag(c) # 0 THEN CRed(sReal + sImag, q) ELSE sReal
        second == IF ConstImag(c) # 0 THEN CRed(sReal + (q - sImag), q) ELSE first
    IN  <<first, second>>

\* AddConst(ct0, constant, ctOut) on the elements: the receiver afterwards.
\* Only the rows 0..level of the receiver's first part are written.
AddConst(el0, c, elOut) ==
    LET level == MinUint64(ElLevel(el0), ElLevel(elOut))
        half == RingN \div 2
        newRow(i) ==
            LET t == AddConstTerms(c, el0.scale, i)
            IN  [k \in Slots |->
                    CRed(el0.value[1].rows[i][k] + t[IF k <= half THEN 1 ELSE 2], QMod[i])]
    IN  [elOut EXCEPT !.value[1].rows =
            [i \in 1..Len(@) |-> IF i <= level + 1 THEN newRow(i) ELSE @[i]]]

\* ct0.CopyNew(): a new element with ct0's parts, scale and domain.
CopyNew(el) == el

(***************************************************************************)
(* Add, Sub and evaluateInPlace.                                           *)
(***************************************************************************)
AddNoModLvl(level, p1, p2, p3) ==
    Stored([i \in 1..Len(p3) |->
        IF i <= level + 1 THEN [k \in Slots |-> p1[i][k] + p2[i][k]] ELSE p3[i]])

SubNoModLvl(level, p1, p2, p3) ==
    Stored([i \in 1..Len(p3) |->
        IF i <= level + 1
        THEN [k \in Slots |-> p1[i][k] + (QMod[i] - p2[i][k])]
        ELSE p3[i]])

\* The ring function Add, AddNoMod, Sub or SubNoMod hands to evaluateInPlace.
Evaluate(ev, level, p1, p2, p3) ==
    CASE ev = "Add" -> AddLvl(level, p1, p2, p3)
      [] ev = "AddNoMod" -> AddNoModLvl(level, p1, p2, p3)
      [] ev = "Sub" -> SubLvl(level, p1, p2, p3)
      [] ev = "SubNoMod" -> SubNoModLvl(level, p1, p2, p3)

CtxPool == "pool"

\* The level evaluateInPlace computes on: the minimum over both operands and
\* the receiver as it is on entry.
EvaluateLevel(hp, c0, c1, out) ==
    MinUint64(MinUint64(ElLevel(hp[c0]), ElLevel(hp[c1])), ElLevel(hp[out]))

\* The number of levels evaluateInPlace asks DropLevel to remove from the
\* receiver.
EvaluateDrop(hp, c0, c1, out) ==
    Uint64Sub(ElLevel(hp[out]), MinUint64(ElLevel(hp[c0]), ElLevel(hp[c1])))

\* uint64(a.Scale() / b.Scale())
ScaleRatio(a, b) == a.scale \div b.scale

\* MultByConst(hp[src], n, hp[dst]) on the heap, when n is not zero.
ScaleInto(hp, src, n, dst) ==
    IF n = 0 THEN [h |-> hp, panic |-> FALSE]
    ELSE With(MultByConst(hp[src], UintConst(n), hp[dst]),
              LAMBDA r : [h |-> [hp EXCEPT ![dst] = r.el], panic |-> r.panic])

\* The operands evaluateInPlace reads after the scaling r: [h, panic, tmp0,
\* tmp1].
Aligned(r, tmp0, tmp1) == [h |-> r.h, panic |-> r.panic, tmp0 |-> tmp0, tmp1 |-> tmp1]

\* The same when element id was scaled in place and takes the scale.
AlignedInPlace(r, id, scale, tmp0, tmp1) ==
    [h |-> [r.h EXCEPT ![id].scale = scale], panic |-> r.panic, tmp0 |-> tmp0, tmp1 |-> tmp1]

\* The alignment of the scales in evaluateInPlace: [h, panic, tmp0, tmp1].
AlignScales(hp, c0, c1, out) ==
    LET s0 == hp[c0].scale
        s1 == hp[c1].scale
        same == [h |-> hp, panic |-> FALSE, tmp0 |-> c0, tmp1 |-> c1]
    IN  IF out = c0 THEN
            IF s0 > s1 THEN
                Aligned(ScaleInto(hp, c1, ScaleRatio(hp[c0], hp[c1]), CtxPool), c0, CtxPool)
            ELSE IF s1 > s0 THEN
                AlignedInPlace(ScaleInto(hp, c0, ScaleRatio(hp[c1], hp[c0]), c0), c0, s1, c0, c1)
            ELSE same
        ELSE IF out = c1 THEN
            IF s1 > s0 THEN
                Aligned(ScaleInto(hp, c0, ScaleRatio(hp[c1], hp[c0]), CtxPool), CtxPool, c1)
            ELSE IF s0 > s1 THEN
                AlignedInPlace(ScaleInto(hp, c1, ScaleRatio(hp[c0], hp[c1]), out), out, s0,
                               c0, c1)
            ELSE same
        ELSE
            IF s1 > s0 THEN
                Aligned(ScaleInto(hp, c0, ScaleRatio(hp[c1], hp[c0]), CtxPool), CtxPool, c1)
            ELSE IF s0 > s1 THEN
                Aligned(ScaleInto(hp, c1, ScaleRatio(hp[c0], hp[c1]), CtxPool), c0, CtxPool)
            ELSE same

\* Part u of element id has rows 0..level.
PartFits(hp, id, u, level) == u <= Len(hp[id].value) /\ level + 1 <= hp[id].value[u].len

\* The parts u in `parts` of element `from` are written on rows 0..level of
\* the receiver's parts by CopyLvl or, negated, by NegLvl.
WriteParts(hp, out, parts, level, from, neg) ==
    [hp EXCEPT ![out].value =
        [u \in 1..Len(@) |->
            IF u \in parts
            THEN SetCoeffs(@[u],
                    IF neg THEN NegLvl(level, Coeffs(hp[from].value[u]), Coeffs(@[u]))
                    ELSE CopyLvl(level, Coeffs(hp[from].value[u]), Coeffs(@[u])))
            ELSE @[u]]]

\* evaluateInPlace(c0, c1, ctOut, evaluate) on the heap.
EvaluateInPlace(hp, c0, c1, out, ev) ==
    LET level == EvaluateLevel(hp, c0, c1, out)
        maxDegree == MaxUint64(ElDegree(hp[c0]), ElDegree(hp[c1]))
        minDegree == MinUint64(ElDegree(hp[c0]), ElDegree(hp[c1]))
    IN
    With([hp EXCEPT ![out] = Resize(@, maxDegree)], LAMBDA h1 :
    With(DropLevel(h1[out], EvaluateDrop(h1, c0, c1, out)), LAMBDA dl :
    With([h1 EXCEPT ![out] = dl.el], LAMBDA h2 :
    IF dl.panic THEN Panic(h2, "slice bounds out of range") ELSE
    With(AlignScales(h2, c0, c1, out), LAMBDA al :
    IF al.panic THEN Panic(al.h, "index out of range") ELSE
    With(al.h, LAMBDA h3 :
    IF \E u \in 1..(minDegree + 1) :
            \/ ~PartFits(h3, al.tmp0, u, level)
            \/ ~PartFits(h3, al.tmp1, u, level)
            \/ ~PartFits(h3, out, u, level)
    THEN Panic(h3, "index out of range") ELSE
    With([h3 EXCEPT ![out].value =
            [u \in 1..Len(@) |->
                IF u <= minDegree + 1
                THEN SetCoeffs(@[u],
                        Evaluate(ev, level, Coeffs(h3[al.tmp0].value[u]),
                                 Coeffs(h3[al.tmp1].value[u]), Coeffs(@[u])))
                ELSE @[u]]], LAMBDA h4 :
    With([h4 EXCEPT ![out].scale = MaxFloat64(h4[c0].scale, h4[c1].scale)], LAMBDA h5 :
    LET from == IF ElDegree(h5[c0]) > ElDegree(h5[c1]) /\ al.tmp0 # out THEN al.tmp0
                ELSE IF ElDegree(h5[c1]) > ElDegree(h5[c0]) /\ al.tmp1 # out THEN al.tmp1
                ELSE Nil
        rest == (minDegree + 2)..(maxDegree + 1)
    IN  IF from = Nil THEN Return(h5)
        ELSE IF \E u \in rest : ~PartFits(h5, from, u, level) \/ ~PartFits(h5, out, u, level)
        THEN Panic(h5, "index out of range")
        ELSE Return(WriteParts(h5, out, rest, level, from, FALSE)))))))))

\* Add and AddNoMod (ev = "Add", "AddNoMod").
Add(hp, op0, op1, opOut, ev) ==
    LET why == GetElemAndCheckBinary(hp, op0, op1, opOut)
    IN  IF why # "" THEN Panic(hp, why) ELSE EvaluateInPlace(hp, op0, op1, opOut, ev)

\* Sub and SubNoMod (ev = "Sub", "SubNoMod"): evaluateInPlace, then the parts
\* that only op1 has are negated on the receiver.
Sub(hp, op0, op1, opOut, ev) ==
    LET why == GetElemAndCheckBinary(hp, op0, op1, opOut)
    IN  IF why # "" THEN Panic(hp, why) ELSE
        With(EvaluateInPlace(hp, op0, op1, opOut, ev), LAMBDA r :
        IF r.panic THEN r ELSE
        LET level == EvaluateLevel(r.h, op0, op1, opOut)
            d0 == ElDegree(r.h[op0])
            d1 == ElDegree(r.h[op1])
            rest == (d0 + 2)..(d1 + 1)
        IN  IF d0 >= d1 THEN r
            ELSE IF \E u \in rest : ~PartFits(r.h, opOut, u, level)
            THEN Panic(r.h, "index out of range")
            ELSE Return(WriteParts(r.h, opOut, rest, level, opOut, TRUE)))

(***************************************************************************)
(* MulRelin, Relinearize and the key-switching primitive.  The evaluator's *)
(* scratch polynomials (ringpool, poolQ, poolP, keyswitchpool) are written *)
(* on rows 0..level before they are read on those rows: they are local     *)
(* values here.                                                            *)
(***************************************************************************)
\* evaluator.ckksContext.alpha: the number of moduli of one digit.
Alpha == NumP

\* beta := uint64(math.Ceil(float64(level+1) / float64(alpha)))
Beta(level) == (level + Alpha) \div Alpha

\* An evaluation key: one pair of QP polynomials per digit, in Montgomery
\* form and in the NTT domain.
KeyPoly(i, c) ==
    Stored([x \in 1..(NumQ + NumP) |-> [k \in Slots |-> (11 + 2 * i + 3 * c + 5 * x + 7 * k) % QPMod[x]]])
EvaKey == [i \in 1..Beta(NumQ - 1) |-> <<KeyPoly(i, 0), KeyPoly(i, 1)>>]

InvNTTLvl(level, p1, p2) ==
    Stored([i \in 1..Len(p2) |-> IF i <= level + 1 THEN InvNTTRow(p1[i], QMod[i]) ELSE p2[i]])

ReduceLvl(level, p1, p2) ==
    Stored([i \in 1..Len(p2) |->
        IF i <= level + 1 THEN [k \in DOMAIN p1[i] |-> p1[i][k] % QMod[i]] ELSE p2[i]])

ReduceP(p1) == Stored([j \in 1..NumP |-> [k \in DOMAIN p1[j] |-> p1[j][k] % PMod[j]]])

\* The rows of digit `beta` at `level`: alpha consecutive moduli, fewer for
\* the last digit.
DigitRows(level, beta) ==
    {x \in 1..(level + 1) : beta * Alpha < x /\ x <= (beta + 1) * Alpha}

\* decomposer.DecomposeAndSplit: the digit's value, out of the NTT domain, is
\* lifted from its moduli and reduced modulo every modulus of Q and of P.
DecomposeAndSplit(level, beta, c2InvNTT) ==
    LET rows == DigitRows(level, beta)
        bound == ProdSeq([n \in 1..Cardinality(rows) |-> QMod[beta * Alpha + n]])
        lifted == Stored([k \in DOMAIN c2InvNTT[1] |->
                     CHOOSE v \in 0..(bound - 1) :
                        \A x \in rows : v % QMod[x] = c2InvNTT[x][k]])
    IN  [Q |-> Stored([x \in 1..NumQ |->
                    IF x <= level + 1 THEN [k \in DOMAIN lifted |-> lifted[k] % QMod[x]]
                    ELSE ZeroRowN(Len(lifted))]),
         P |-> Stored([j \in 1..NumP |-> [k \in DOMAIN lifted |-> lifted[k] % PMod[j]]])]

\* decomposeAndSplitNTT: [Q, P], the digit back in the NTT domain; the rows of
\* the digit itself are copied from the NTT-domain input.
DecomposeAndSplitNTT(level, beta, c2NTT, c2InvNTT) ==
    LET d == DecomposeAndSplit(level, beta, c2InvNTT)
    IN  [Q |-> Stored([x \in 1..NumQ |->
                    IF x > level + 1 THEN d.Q[x]
                    ELSE IF x \in DigitRows(level, beta) THEN c2NTT[x]
                    ELSE NTTRow(d.Q[x], QMod[x])]),
         P |-> Stored([j \in 1..NumP |-> NTTRow(d.P[j], PMod[j])])]

\* The rows of a key polynomial that belong to Q and to P.
KeyQ(key) == SubSeq(key, 1, NumQ)
KeyP(key) == SubSeq(key, NumQ + 1, NumQ + NumP)

\* The four accumulators pool2Q, pool3Q, pool2P, pool3P reduced modulo their
\* moduli on rows 0..level.
ReducePools(level, acc) ==
    [pool2Q |-> ReduceLvl(level, acc.pool2Q, acc.pool2Q),
     pool3Q |-> ReduceLvl(level, acc.pool3Q, acc.pool3Q),
     pool2P |-> ReduceP(acc.pool2P),
     pool3P |-> ReduceP(acc.pool3P)]

\* MulCoeffsMontgomeryAndAddNoMod of ringP: poolP + keyP * dP, not reduced.
MulAddNoModP(keyP, dP, poolP) ==
    Stored([j \in 1..NumP |->
        [k \in DOMAIN poolP[j] |-> poolP[j][k] + MRed(keyP[j][k], dP[j][k], PMod[j])]])

\* The digit d times the key pair is added to the accumulators.
AddDigit(level, key, d, acc) ==
    [pool2Q |-> MulCoeffsMontgomeryAndAddNoModLvl(level, KeyQ(key[1]), d.Q, acc.pool2Q),
     pool3Q |-> MulCoeffsMontgomeryAndAddNoModLvl(level, KeyQ(key[2]), d.Q, acc.pool3Q),
     pool2P |-> MulAddNoModP(KeyP(key[1]), d.P, acc.pool2P),
     pool3P |-> MulAddNoModP(KeyP(key[2]), d.P, acc.pool3P)]

\* The loop of switchKeysInPlace over the digits reduce..beta-1: acc holds
\* pool2Q, pool2P, pool3Q, pool3P.
RECURSIVE SwitchKeysLoop(_, _, _, _, _, _)
SwitchKeysLoop(level, reduce, cx, c2, evakey, acc) ==
    IF reduce >= Beta(level) THEN acc
    ELSE With(AddDigit(level, evakey[reduce + 1],
                       DecomposeAndSplitNTT(level, reduce, cx, c2), acc),
              LAMBDA summed :
                SwitchKeysLoop(level, reduce + 1, cx, c2, evakey,
                               IF reduce % 8 = 1 THEN ReducePools(level, summed)
                               ELSE summed))

\* baseconverter.ModDownSplitedNTT
ModDownSplitedNTT(level, p1Q, p1P, p2) == ModDownSplitNTTPQ(level, p1Q, p1P, p2)

\* The end of switchKeysInPlace: the accumulators are divided by P and added
\* to the receiver's first two parts.
SwitchKeysAdd(level, fin, el) ==
    With([el EXCEPT !.value[1] =
            SetCoeffs(@, AddLvl(level, Coeffs(@),
                                ModDownSplitedNTT(level, fin.pool2Q, fin.pool2P, fin.pool2Q),
                                Coeffs(@)))],
         LAMBDA first :
            IF ElDegree(el) < 1 THEN [el |-> first, panic |-> TRUE]
            ELSE [el |-> [first EXCEPT !.value[2] =
                            SetCoeffs(@, AddLvl(level, Coeffs(@),
                                ModDownSplitedNTT(level, fin.pool3Q, fin.pool3P, fin.pool3Q),
                                Coeffs(@)))],
                  panic |-> FALSE])

\* The accumulators after the loop, reduced unless the last digit did it.
SwitchKeysFinal(level, acc) ==
    IF (Beta(level) - 1) % 8 # 1 THEN ReducePools(level, acc) ELSE acc

ZeroPools(n) == [pool2Q |-> ZeroPolyN(NumQ, n), pool3Q |-> ZeroPolyN(NumQ, n),
                 pool2P |-> ZeroPolyN(NumP, n), pool3P |-> ZeroPolyN(NumP, n)]

\* switchKeysInPlace(cx, evakey, ctOut) on the element: [el, panic].  cx is
\* the polynomial's visible rows.
SwitchKeysInPlace(cx, evakey, el) ==
    LET level == ElLevel(el)
    IN  IF ~Fits(level, cx) THEN [el |-> el, panic |-> TRUE]
        ELSE SwitchKeysAdd(level,
                SwitchKeysFinal(level,
                    SwitchKeysLoop(level, 0, cx,
                                   InvNTTLvl(level, cx, ZeroPolyN(NumQ, Len(cx[1]))), evakey,
                                   ZeroPools(Len(cx[1])))),
                el)

\* The level MulRelin multiplies at.
MulRelinLevel(hp, op0, op1, opOut) ==
    MinUint64(MinUint64(ElLevel(hp[op0]), ElLevel(hp[op1])), ElLevel(hp[opOut]))

\* The receiver of MulRelin after the level adjustment at its entry.
MulRelinDropLevel(hp, op0, op1, opOut) ==
    LET level == MulRelinLevel(hp, op0, op1, opOut)
    IN  IF ElLevel(hp[opOut]) > level
        THEN [hp EXCEPT ![opOut] = DropLevel(@, Uint64Sub(ElLevel(@), level)).el]
        ELSE hp

\* Part u of the receiver is overwritten on rows 0..level with poly.
WritePart(el, u, level, poly) ==
    [el EXCEPT !.value[u] = SetCoeffs(@, CopyLvl(level, poly, Coeffs(@)))]

\* The product of two degree-1 elements: <<c0, c1, c2>>.
TensorProduct(level, el0, el1, squaring) ==
    LET c00 == MFormLvl(level, Coeffs(el0.value[1]), NewPolyQ)
        c01 == MFormLvl(level, Coeffs(el0.value[2]), NewPolyQ)
        c0 == MulCoeffsMontgomeryLvl(level, c00, Coeffs(el1.value[1]), NewPolyQ)
        c1a == MulCoeffsMontgomeryLvl(level, c00, Coeffs(el1.value[2]), NewPolyQ)
        c1 == IF squaring THEN AddLvl(level, c1a, c1a, c1a)
              ELSE MulCoeffsMontgomeryAndAddNoModLvl(level, c01, Coeffs(el1.value[1]), c1a)
        c2 == MulCoeffsMontgomeryLvl(level, c01, Coeffs(el1.value[2]), NewPolyQ)
    IN  <<c0, c1, c2>>

\* MulRelin(op0, op1, evakey, ctOut) on the heap.
MulRelin(hp, op0, op1, evakey, opOut) ==
    LET why == GetElemAndCheckBinary(hp, op0, op1, opOut)
        level == MulRelinLevel(hp, op0, op1, opOut)
    IN  IF why # "" THEN Panic(hp, why) ELSE
    With(MulRelinDropLevel(hp, op0, op1, opOut), LAMBDA h1 :
    IF ElDegree(h1[op0]) > 1 \/ ElDegree(h1[op1]) > 1
    THEN Panic(h1, "cannot mul -> input element and output element must be of degree 0 or 1")
    ELSE IF ~h1[op0].isNTT THEN Panic(h1, "cannot mul -> op0 must be in NTT to multiply")
    ELSE IF ~h1[op1].isNTT THEN Panic(h1, "cannot mul -> op1 must be in NTT to multiply")
    ELSE
    With([h1 EXCEPT ![opOut].scale = h1[op0].scale * h1[op1].scale], LAMBDA h2 :
    LET el0 == h2[op0]
        el1 == h2[op1]
    IN  IF ElDegree(el0) + ElDegree(el1) = 2 THEN
            With(TensorProduct(level, el0, el1, op0 = op1), LAMBDA c :
            With(WritePart(WritePart(h2[opOut], 1, level, c[1]), 2, level, c[2]), LAMBDA two :
            IF ~evakey.isNil THEN
                With(SwitchKeysInPlace(SubSeq(c[3], 1, NumQ), evakey.evakey, two), LAMBDA r :
                IF r.panic THEN Panic([h2 EXCEPT ![opOut] = r.el], "index out of range")
                ELSE Return([h2 EXCEPT ![opOut] = r.el]))
            ELSE Return([h2 EXCEPT ![opOut] = WritePart(Resize(two, 2), 3, level, c[3])])))
        ELSE
            LET tmp0 == IF ElDegree(el0) = 1 THEN el1 ELSE el0
                tmp1 == IF ElDegree(el0) = 1 THEN el0 ELSE el1
            IN  With(MFormLvl(level, Coeffs(tmp0.value[1]), NewPolyQ), LAMBDA c00 :
                Return([h2 EXCEPT ![opOut] =
                    WritePart(WritePart(@, 1, level,
                        MulCoeffsMontgomeryLvl(level, c00, Coeffs(tmp1.value[1]), NewPolyQ)),
                        2, level,
                        MulCoeffsMontgomeryLvl(level, c00, Coeffs(tmp1.value[2]), NewPolyQ))]))))

\* A Relinearize that leaves the receiver with the parts it has.
RelinearizeKeepDegree(hp, ct0, evakey, opOut) ==
    IF ct0 = Nil THEN Panic(hp, "nil pointer dereference")
    ELSE IF ElDegree(hp[ct0]) # 2 THEN Panic(hp, "cannot relinearize -> input is not of degree 2")
    ELSE IF opOut = Nil THEN Panic(hp, "nil pointer dereference")
    ELSE
    With(IF opOut # ct0 THEN [hp EXCEPT ![opOut].scale = hp[ct0].scale] ELSE hp, LAMBDA h1 :
    LET level == MinUint64(ElLevel(h1[ct0]), ElLevel(h1[opOut]))
    IN
    With([h1 EXCEPT ![opOut] = WritePart(@, 1, level, Coeffs(h1[ct0].value[1]))], LAMBDA h2 :
    IF ElDegree(h2[opOut]) < 1 THEN Panic(h2, "index out of range") ELSE
    With([h2 EXCEPT ![opOut] = WritePart(@, 2, level, Coeffs(h2[ct0].value[2]))], LAMBDA h3 :
    IF evakey.isNil THEN Panic(h3, "nil pointer dereference") ELSE
    With(SwitchKeysInPlace(Coeffs(h3[ct0].value[3]), evakey.evakey, h3[opOut]), LAMBDA r :
    IF r.panic THEN Panic([h3 EXCEPT ![opOut] = r.el], "index out of range")
    ELSE Return([h3 EXCEPT ![opOut] = r.el])))))

\* Relinearize(ct0, evakey, ctOut) on the heap.
Relinearize(hp, ct0, evakey, opOut) ==
    IF ct0 = Nil THEN Panic(hp, "nil pointer dereference")
    ELSE IF ElDegree(hp[ct0]) # 2 THEN Panic(hp, "cannot relinearize -> input is not of degree 2")
    ELSE IF opOut = Nil THEN Panic(hp, "nil pointer dereference")
    ELSE
    With(IF opOut # ct0 THEN [hp EXCEPT ![opOut].scale = hp[ct0].scale] ELSE hp, LAMBDA h1 :
    LET level == MinUint64(ElLevel(h1[ct0]), ElLevel(h1[opOut]))
    IN
    With([h1 EXCEPT ![opOut] = WritePart(@, 1, level, Coeffs(h1[ct0].value[1]))], LAMBDA h2 :
    IF ElDegree(h2[opOut]) < 1 THEN Panic(h2, "index out of range") ELSE
    With([h2 EXCEPT ![opOut] = WritePart(@, 2, level, Coeffs(h2[ct0].value[2]))], LAMBDA h3 :
    IF evakey.isNil THEN Panic(h3, "nil pointer dereference") ELSE
    With(SwitchKeysInPlace(Coeffs(h3[ct0].value[3]), evakey.evakey, h3[opOut]), LAMBDA r :
    IF r.panic THEN Panic([h3 EXCEPT ![opOut] = r.el], "index out of range")
    ELSE Return([h3 EXCEPT ![opOut] = Resize(r.el, 1)])))))

(***************************************************************************)
(* The protocol: Init -> GenShare (per party) -> AggregateShares ->        *)
(* KeySwitch.                                                              *)
(***************************************************************************)
NoAgg == [called |-> FALSE, panic |-> FALSE, rows |-> 0,
          share1 |-> <<>>, share2 |-> <<>>, shareOut |-> <<>>, out |-> 0]
NoKs == [status |-> "none", alias |-> FALSE, slot |-> 0, combined |-> <<>>,
         receiver |-> <<>>]
NoCt == [value |-> <<>>, scale |-> 0]
NoHeap == <<>>
NoMul == [degrees |-> <<>>, scales |-> <<>>, key |-> FALSE]
NoCall == [op |-> "none", op0 |-> Nil, op1 |-> Nil, out |-> Nil, key |-> FALSE,
           status |-> "none", reason |-> "", mul |-> NoMul]

CKSInit ==
    /\ ct \in CtInputs
    /\ ctIn = ct
    /\ ctOut = NoCt
    \* j >= 1 parties take part; the others stay out of the run
    /\ \E j \in Parties :
          /\ pc = [p \in Parties |-> IF p <= j THEN "Sub" ELSE "out"]
          /\ \E keys \in [1..j -> KeyPairs] :
                skCoeffs = [p \in Parties |->
                              IF p <= j THEN keys[p] ELSE [in |-> <<0, 0>>, out |-> <<0, 0>>]]
          \* a party's share comes from AllocateShare or is a polynomial at ct's level
          /\ \E rows \in [1..j -> {Level(ct) + 1, NumQ}] :
                share = [s \in ShareIds |->
                           IF s \in 1..j THEN ZeroPoly(rows[s]) ELSE AllocateShare]
    /\ sk = [p \in Parties |->
                [in |-> StoredKey(skCoeffs[p].in), out |-> StoredKey(skCoeffs[p].out)]]
    /\ sigmaArg \in SigmaArgs
    /\ cks = [p \in Parties |-> NewCKSProtocol(sigmaArg)]
    /\ members = [s \in ShareIds |-> {}]
    /\ noise = [p \in Parties |-> <<>>]
    /\ reads = [p \in Parties |-> 0]
    /\ steps = [p \in Parties |-> <<>>]
    /\ agg = NoAgg
    /\ ks = NoKs
    \* no evaluator takes part in the protocol
    /\ h = NoHeap
    /\ h0 = NoHeap
    /\ call = NoCall

\* Every routine is synchronous: one GenShare call runs at a time, the
\* parties taking their turns in ascending order.
MayStep(p) == \A r \in 1..(p - 1) : pc[r] = "done"

GenShareStep(p) ==
    /\ pc[p] \notin {"done", "out"}
    /\ MayStep(p)
    /\ pc' = [pc EXCEPT ![p] = GenShareNext(pc[p])]
    /\ steps' = [steps EXCEPT ![p] = Append(@, pc[p])]
    /\ members' = [members EXCEPT ![p] = IF pc'[p] = "done" THEN {p} ELSE @]
    /\ CASE pc[p] = "Sub" ->
              /\ cks' = [cks EXCEPT ![p] = StepSub(@, sk[p].in, sk[p].out)]
              /\ UNCHANGED <<share, noise, reads>>
         [] pc[p] = "Mul" ->
              /\ share' = [share EXCEPT ![p] = StepMul(cks[p], ct, @)]
              /\ UNCHANGED <<cks, noise, reads>>
         [] pc[p] = "MulP" ->
              /\ share' = [share EXCEPT ![p] = StepMulP(ct, @)]
              /\ UNCHANGED <<cks, noise, reads>>
         [] pc[p] = "Read" ->
              /\ \E e \in SamplerOutputs(cks[p].gaussianSampler) :
                    /\ cks' = [cks EXCEPT ![p] = StepRead(@, e)]
                    /\ noise' = [noise EXCEPT ![p] = e]
              /\ reads' = [reads EXCEPT ![p] = @ + 1]
              /\ UNCHANGED share
         [] pc[p] = "AddQ" ->
              /\ share' = [share EXCEPT ![p] = StepAddQ(cks[p], ct, @)]
              /\ UNCHANGED <<cks, noise, reads>>
         [] pc[p] = "LoadhP" ->
              /\ cks' = [cks EXCEPT ![p] = StepLoadhP(@)]
              /\ UNCHANGED <<share, noise, reads>>
         [] pc[p] = "ModDown" ->
              /\ share' = [share EXCEPT ![p] = StepModDown(cks[p], ct, @)]
              /\ UNCHANGED <<cks, noise, reads>>
         [] pc[p] = "Zero" ->
              /\ cks' = [cks EXCEPT ![p] = StepZero(@)]
              /\ UNCHANGED <<share, noise, reads>>
    /\ UNCHANGED <<ct, ctIn, ctOut, sk, skCoeffs, sigmaArg, agg, ks>>
    /\ UNCHANGED evalVars

Active == {p \in Parties : pc[p] # "out"}
AllShared == \A p \in Active : pc[p] = "done"

\* AggregateShares(share[a], share[b], share[o]): two shares holding different
\* contributions are folded into o, which is one of them or a spare.
Aggregate(a, b, o) ==
    /\ AllShared
    /\ ks.status = "none"
    /\ ~agg.panic
    /\ a # b
    /\ members[a] # {} /\ members[b] # {}
    /\ members[a] \cap members[b] = {}
    /\ o \in {a, b} \/ members[o] = {}
    /\ LET r == AggregateShares(share[a], share[b], share[o])
       IN  /\ share' = [share EXCEPT ![o] = r.poly]
           /\ agg' = [called |-> TRUE, panic |-> r.panic, rows |-> r.rows,
                      share1 |-> share[a], share2 |-> share[b],
                      shareOut |-> share[o], out |-> o]
           /\ members' = [s \in ShareIds |->
                            IF r.panic THEN members[s]
                            ELSE IF s = o THEN members[a] \cup members[b]
                            ELSE IF s \in {a, b} THEN {}
                            ELSE members[s]]
    /\ UNCHANGED <<ct, ctIn, ctOut, sk, skCoeffs, sigmaArg, cks, pc, noise, reads, steps, ks>>
    /\ UNCHANGED evalVars

\* KeySwitch(share[o], ct, ct): the receiver is the input ciphertext.
KeySwitchInPlace(o) ==
    /\ AllShared
    /\ ks.status = "none"
    /\ ~agg.panic
    /\ members[o] = Active
    /\ IF KeySwitchInRange(share[o], ct, ct)
       THEN /\ ct' = KeySwitch(share[o], ct, ct)
            /\ ks' = [status |-> "ok", alias |-> TRUE, slot |-> o, combined |-> share[o], receiver |-> ct]
       ELSE /\ ks' = [status |-> "panic", alias |-> TRUE, slot |-> o, combined |-> share[o], receiver |-> ct]
            /\ UNCHANGED ct
    /\ UNCHANGED <<ctIn, ctOut, sk, skCoeffs, sigmaArg, cks, pc, share, members,
                   noise, reads, steps, agg>>
    /\ UNCHANGED evalVars

\* KeySwitch(share[o], ct, ctOut) into a fresh ciphertext of `rows` rows.
KeySwitchNew(o, rows) ==
    /\ AllShared
    /\ ks.status = "none"
    /\ ~agg.panic
    /\ members[o] = Active
    /\ LET receiver == [value |-> <<ZeroPoly(rows), ZeroPoly(rows)>>, scale |-> 1]
       IN  IF KeySwitchInRange(share[o], ct, receiver)
           THEN /\ ctOut' = KeySwitch(share[o], ct, receiver)
                /\ ks' = [status |-> "ok", alias |-> FALSE, slot |-> o, combined |-> share[o],
                          receiver |-> receiver]
           ELSE /\ ctOut' = receiver
                /\ ks' = [status |-> "panic", alias |-> FALSE, slot |-> o, combined |-> share[o],
                          receiver |-> receiver]
    /\ UNCHANGED <<ct, ctIn, sk, skCoeffs, sigmaArg, cks, pc, share, members,
                   noise, reads, steps, agg>>
    /\ UNCHANGED evalVars

CKSNext ==
    \/ \E p \in Parties : GenShareStep(p)
    \/ \E a, b, o \in ShareIds : Aggregate(a, b, o)
    \/ \E o \in ShareIds : KeySwitchInPlace(o)
    \/ \E o \in ShareIds, rows \in 1..NumQ : KeySwitchNew(o, rows)

vars == <<cksVars, evalVars>>

SpecCKS == CKSInit /\ [][CKSNext]_vars

(***************************************************************************)
(* Evaluator runs: the caller builds its operands, then makes one call.    *)
(***************************************************************************)
\* No protocol runs beside the evaluator.
CKSIdle ==
    /\ ct = NoCt
    /\ ctIn = NoCt
    /\ ctOut = NoCt
    /\ skCoeffs = [p \in Parties |-> [in |-> <<0, 0>>, out |-> <<0, 0>>]]
    /\ sk = [p \in Parties |->
                [in |-> StoredKey(skCoeffs[p].in), out |-> StoredKey(skCoeffs[p].out)]]
    /\ sigmaArg = ParamsSigma
    /\ cks = [p \in Parties |-> NewCKSProtocol(sigmaArg)]
    /\ pc = [p \in Parties |-> "out"]
    /\ share = [s \in ShareIds |-> AllocateShare]
    /\ members = [s \in ShareIds |-> {}]
    /\ noise = [p \in Parties |-> <<>>]
    /\ reads = [p \in Parties |-> 0]
    /\ steps = [p \in Parties |-> <<>>]
    /\ agg = NoAgg
    /\ ks = NoKs

\* The residues the caller's element `seed` holds: row i of part u.
InputRow(seed, u, i) == Stored([k \in Slots |-> (seed + 3 * u + 5 * i + 7 * k) % QMod[i]])

\* An element of the caller: `level + 1` visible rows over a backing array of
\* `cap` rows (what an earlier DropLevel leaves behind when cap > level + 1).
InputElement(seed, degree, level, cap, scale, ntt) ==
    [value |-> [u \in 1..(degree + 1) |->
                    [rows |-> [i \in 1..cap |-> InputRow(seed, u, i)], len |-> level + 1]],
     scale |-> scale, isNTT |-> ntt]

\* NewEvaluator: ctxpool
NewCtxPool == NewCiphertext(1, NumQ - 1, DefaultScale)

ElementIds == {"A", "B", "R", CtxPool}
OperandIds == {"A", "B", Nil}
ReceiverIds == {"A", "B", "R", Nil}

ScalesA == {DefaultScale, 3 * DefaultScale}

\* B is a fresh low-level operand at the default scale or a top-level one at
\* another scale.
ShapesB == {[level |-> 0, scale |-> DefaultScale],
            [level |-> NumQ - 1, scale |-> DefaultScale + 2]}

\* Level and capacity of the receiver R: a fresh element, or one that lost a
\* level to an earlier DropLevel.
ShapesR == {[level |-> l, cap |-> l + 1] : l \in 0..(NumQ - 1)}
               \cup {[level |-> NumQ - 2, cap |-> NumQ]}

AddInit ==
    /\ \E dA \in 0..2, sA \in ScalesA, dB \in 0..1, shB \in ShapesB,
          dR \in 0..2, shR \in ShapesR :
             h = [id \in ElementIds |->
                    CASE id = "A" -> InputElement(1, dA, NumQ - 1, NumQ, sA, TRUE)
                      [] id = "B" -> InputElement(2, dB, shB.level, shB.level + 1,
                                                  shB.scale, TRUE)
                      [] id = "R" -> InputElement(4, dR, shR.level, shR.cap,
                                                  DefaultScale, TRUE)
                      [] OTHER -> NewCtxPool]
    /\ h0 = h
    /\ call = NoCall
    /\ CKSIdle

\* The call returns or panics; the heap is what it left behind.
Called(r, op, a, b, o, key) ==
    /\ call.status = "none"
    /\ h' = r.h
    /\ h0' = h
    /\ call' = [op |-> op, op0 |-> a, op1 |-> b, out |-> o, key |-> key,
                status |-> IF r.panic THEN "panic" ELSE "ok", reason |-> r.reason,
                mul |-> IF op = "MulRelin" /\ a # Nil /\ b # Nil
                        THEN [degrees |-> <<ElDegree(h[a]), ElDegree(h[b])>>,
                              scales |-> <<h[a].scale, h[b].scale>>, key |-> key]
                        ELSE NoMul]
    /\ UNCHANGED cksVars

CallAdd(a, b, o) == Called(Add(h, a, b, o, "Add"), "Add", a, b, o, FALSE)
CallAddNoMod(a, b, o) == Called(Add(h, a, b, o, "AddNoMod"), "AddNoMod", a, b, o, FALSE)
CallSub(a, b, o) == Called(Sub(h, a, b, o, "Sub"), "Sub", a, b, o, FALSE)
CallSubNoMod(a, b, o) == Called(Sub(h, a, b, o, "SubNoMod"), "SubNoMod", a, b, o, FALSE)

AddNext ==
    \/ \E a, b \in OperandIds, o \in ReceiverIds : CallAdd(a, b, o)
    \/ \E a, b \in OperandIds, o \in ReceiverIds : CallAddNoMod(a, b, o)
    \/ \E a, b \in OperandIds, o \in ReceiverIds : CallSub(a, b, o)
    \/ \E a, b \in OperandIds, o \in ReceiverIds : CallSubNoMod(a, b, o)

SpecAdd == AddInit /\ [][AddNext]_vars

KeyArgs == {Nil, "evakey"}
\* An *EvaluationKey argument: nil, or a pointer to the key.
KeyOf(k) == [isNil |-> k = Nil, evakey |-> IF k = Nil THEN <<>> ELSE EvaKey]

MulInit ==
    /\ \E dA \in 0..2, nttA \in BOOLEAN, dB \in 0..1, shB \in ShapesB, nttB \in BOOLEAN,
          dR \in 0..2, lR \in 0..(NumQ - 1) :
             h = [id \in ElementIds |->
                    CASE id = "A" -> InputElement(1, dA, NumQ - 1, NumQ, DefaultScale, nttA)
                      [] id = "B" -> InputElement(2, dB, shB.level, shB.level + 1,
                                                  shB.scale, nttB)
                      [] id = "R" -> InputElement(4, dR, lR, lR + 1, DefaultScale, TRUE)
                      [] OTHER -> NewCtxPool]
    /\ h0 = h
    /\ call = NoCall
    /\ CKSIdle

CallMulRelin(a, b, k, o) ==
    Called(MulRelin(h, a, b, KeyOf(k), o), "MulRelin", a, b, o, k # Nil)

\* Relinearize of the receiver of a MulRelin that returned, in place or into
\* another element.
CallRelinearize(k, o) ==
    /\ call.op = "MulRelin"
    /\ call.status = "ok"
    /\ \E r \in {Relinearize(h, call.out, KeyOf(k), o)} :
           /\ h' = r.h
           /\ h0' = h
           /\ call' = [op |-> "Relinearize", op0 |-> call.out, op1 |-> Nil, out |-> o,
                       key |-> k # Nil,
                       status |-> IF r.panic THEN "panic" ELSE "ok", reason |-> r.reason,
                       mul |-> call.mul]
    /\ UNCHANGED cksVars

MulNext ==
    \/ \E a, b \in OperandIds, k \in KeyArgs, o \in ReceiverIds : CallMulRelin(a, b, k, o)
    \/ \E k \in KeyArgs, o \in ReceiverIds : CallRelinearize(k, o)

SpecMul == MulInit /\ [][MulNext]_vars


(***************************************************************************)
(* Properties of the collective key-switching protocol.                    *)
(***************************************************************************)
RECURSIVE SumOver(_, _)
SumOver(S, f) ==
    IF S = {} THEN 0
    ELSE LET x == CHOOSE y \in S : TRUE IN f[x] + SumOver(S \ {x}, f)

\* The collective keys: the sums of the parties' additive shares.
SkInput == [k \in Slots |-> SumOver(Active, [p \in Active |-> skCoeffs[p].in[k]])]
SkOutput == [k \in Slots |-> SumOver(Active, [p \in Active |-> skCoeffs[p].out[k]])]

\* Row i of the phase c[0] + c[1]*s of a ciphertext under the key s.
Phase(c, s, i) ==
    LET q == QMod[i]
        sNTT == NTTRow([k \in Slots |-> s[k] % q], q)
    IN  [k \in Slots |-> (c.value[1][i][k] + c.value[2][i][k] * sNTT[k]) % q]

KsResult == IF ks.alias THEN ct ELSE ctOut

\* What the basis reduction leaves of the parties' noise: floor(e / P).
NoiseQuotient ==
    [k \in Slots |-> SumOver(Active, [p \in Active |-> noise[p][k] \div ModulusBigintP])]

\* C1: CKS correctness.  After every party ran GenShare on ct, the shares
\* were folded with AggregateShares and the result was given to KeySwitch,
\* the output decrypts under skOutput to what ct decrypts to under skInput
\* plus the parties' noise divided by P, on every row of ct; with zero noise
\* the two phases are equal in ring Q.
CKSCorrectness ==
    ks.status = "ok" =>
        \A i \in 1..(Level(ctIn) + 1) :
            LET q == QMod[i]
                a == Phase(KsResult, SkOutput, i)
                b == Phase(ctIn, SkInput, i)
                d == InvNTTRow([k \in Slots |-> (a[k] + (q - b[k])) % q], q)
            IN  /\ d = [k \in Slots |-> NoiseQuotient[k] % q]
                /\ (\A p \in Active : noise[p] = <<0, 0>>) => a = b

CKSCorrectnessWitness ==
    /\ ks.status = "ok"
    /\ Cardinality(Active) >= 2
    /\ agg.called
    /\ Level(ctIn) >= 1
    /\ \E p \in Active : noise[p] # <<0, 0>>
    /\ \E p \in Active : skCoeffs[p].in # skCoeffs[p].out

\* The shares that GenShare or AggregateShares has filled.
ReadyShares == {share[s] : s \in {t \in ShareIds : members[t] # {}}}

\* C2 (as claimed): AggregateShares is commutative and associative on all
\* shares: the receiver and the outcome do not depend on the order of the
\* two arguments nor on the grouping of three.
AggregateCommutesAssociates ==
    AllShared =>
        \A a, b, c \in ReadyShares :
            /\ AggregateShares(a, b, AllocateShare) = AggregateShares(b, a, AllocateShare)
            /\ AggregateShares(AggregateShares(a, b, AllocateShare).poly, c, AllocateShare)
                 = AggregateShares(a, AggregateShares(b, c, AllocateShare).poly, AllocateShare)

Min(x, y) == IF x <= y THEN x ELSE y
Max(x, y) == IF x >= y THEN x ELSE y

\* C3 (as claimed): on shares of different row counts AggregateShares adds
\* the first min(len(share1), len(share2)) rows, whichever argument is the
\* shorter, and reads no row beyond the shorter share.
AggregateAtMinLength ==
    agg.called =>
        LET m == Min(Len(agg.share1), Len(agg.share2))
        IN  m <= Len(agg.shareOut) =>
                /\ ~agg.panic
                /\ agg.rows = m
                /\ share[agg.out] = AddLvl(m - 1, agg.share1, agg.share2, agg.shareOut)

\* C4: KeySwitch sets ctOut[0] = ct[0] + combined and ctOut[1] = ct[1] on
\* rows 0..level(ct), sets the scale of ctOut to that of ct, leaves the
\* higher rows of ctOut alone and, for a distinct receiver, leaves ct and
\* the combined share unchanged.
KeySwitchEffect ==
    ks.status = "ok" =>
        /\ \A i \in 1..(Level(ctIn) + 1) : \A k \in Slots :
              /\ KsResult.value[1][i][k]
                   = (ctIn.value[1][i][k] + ks.combined[i][k]) % QMod[i]
              /\ KsResult.value[2][i][k] = ctIn.value[2][i][k]
        /\ \A n \in 1..2 : \A i \in (Level(ctIn) + 2)..Len(KsResult.value[n]) :
              KsResult.value[n][i] = ks.receiver.value[n][i]
        /\ Len(KsResult.value) = 2
        /\ KsResult.scale = ctIn.scale
        /\ ~ks.alias => ct = ctIn /\ share[ks.slot] = ks.combined

KeySwitchEffectWitness ==
    /\ ks.status = "ok"
    /\ ~ks.alias
    /\ Level(ctIn) + 1 < Len(ctOut.value[1])
    /\ ks.receiver.scale # ctIn.scale
    /\ \E i \in 1..(Level(ctIn) + 1) : ks.combined[i] # ZeroRow

\* The key difference of party p in the NTT domain, row i.
DeltaNTT(p, i) ==
    NTTRow([k \in Slots |-> (skCoeffs[p].in[k] - skCoeffs[p].out[k]) % QMod[i]], QMod[i])

\* Row i of delta * ct[1] * scalar + NTT(e) for party p.
MaskedRow(p, i, scalar, e) ==
    LET q == QMod[i]
        eNTT == NTTRow([k \in Slots |-> e[k] % q], q)
        dl == DeltaNTT(p, i)
    IN  [k \in Slots |-> (ctIn.value[2][i][k] * dl[k] * scalar + eNTT[k]) % q]

SmudgingSigmaUsed ==
    \A p \in Active :
        /\ cks[p].sigmaSmudging = sigmaArg
        /\ cks[p].gaussianSampler.sigma = sigmaArg
        /\ pc[p] = "done" => reads[p] = 1




(***************************************************************************)
(* Properties of Add and Sub.                                              *)
(***************************************************************************)
\* Residue (i, k) of part u of an element, 0 for a part the element lacks.
ResidueOrZero(el, u, i, k) == IF u <= Len(el.value) THEN el.value[u].rows[i][k] ELSE 0

\* floor(maxScale / minScale) for the lower-scale operand, 1 for the other.
AlignFactor(el, other) == IF el.scale < other.scale THEN other.scale \div el.scale ELSE 1

\* a + b or a - b after the lower-scale operand was multiplied by the ratio.
AddSubReference(op, a, b, u, i, k) ==
    LET x == AlignFactor(a, b) * ResidueOrZero(a, u, i, k)
        y == AlignFactor(b, a) * ResidueOrZero(b, u, i, k)
    IN  (IF op = "Add" THEN x + y ELSE x - y) % QMod[i]

AddSubReturned == call.status = "ok" /\ call.op \in {"Add", "Sub"}

\* C7: when Add or Sub of op0, op1 into a receiver of any level returns, the
\* receiver has level min(level(op0), level(op1)), degree
\* max(degree(op0), degree(op1)) and scale max(scale(op0), scale(op1)), and
\* holds op0 + op1 (op0 - op1) of the operands after the lower-scale one was
\* multiplied by floor(maxScale / minScale).
AddSubResult ==
    AddSubReturned =>
        LET a == h0[call.op0]
            b == h0[call.op1]
            o == h[call.out]
            level == Min(ElLevel(a), ElLevel(b))
        IN  /\ ElLevel(o) = level
            /\ ElDegree(o) = Max(ElDegree(a), ElDegree(b))
            /\ o.scale = Max(a.scale, b.scale)
            /\ \A u \in 1..Len(o.value), i \in 1..(level + 1), k \in Slots :
                    o.value[u].rows[i][k] = AddSubReference(call.op, a, b, u, i, k)

\* One of the precondition violations of Add / Sub and their NoMod variants.
BadBinaryOperands(hp, a, b, o) ==
    \/ a = Nil
    \/ b = Nil
    \/ o = Nil
    \/ ElDegree(hp[a]) + ElDegree(hp[b]) = 0
    \/ ElDegree(hp[o]) < Max(ElDegree(hp[a]), ElDegree(hp[b]))

\* C8: Add, Sub, AddNoMod and SubNoMod panic when both operands are
\* plaintexts, when op0, op1 or the receiver is nil, or when the receiver's
\* degree is below max(degree(op0), degree(op1)); nothing is written then.
AddSubPreconditionPanics ==
    (call.status # "none" /\ BadBinaryOperands(h0, call.op0, call.op1, call.out)) =>
        call.status = "panic" /\ h = h0

\* A SubNoMod into a receiver of too small a degree has panicked.
AddSubPreconditionPanicsWitness ==
    /\ call.op = "SubNoMod"
    /\ call.status = "panic"
    /\ call.op0 # Nil /\ call.op1 # Nil /\ call.out = "R"
    /\ ElDegree(h0["A"]) + ElDegree(h0["B"]) > 0
    /\ ElDegree(h0["R"]) < Max(ElDegree(h0[call.op0]), ElDegree(h0[call.op1]))
    /\ ElLevel(h0["R"]) > 0


(***************************************************************************)
(* Properties of MulRelin and Relinearize.                                 *)
(***************************************************************************)
\* MulRelin was called on two degree-1 operands in the NTT domain.
MulOfCiphertexts ==
    /\ call.mul # NoMul
    /\ call.mul.degrees = <<1, 1>>

\* C9: for degree-1 NTT-domain operands and any receiver MulRelin admits,
\* MulRelin with an evaluation key leaves the receiver at degree 1; with a
\* nil key it leaves it at degree 2 and a following Relinearize brings it to
\* degree 1; in both cases the receiver's scale is scale(A) * scale(B).
MulRelinDegreeInvariant ==
    /\ (call.op = "MulRelin" /\ call.status = "ok" /\ MulOfCiphertexts) =>
            /\ ElDegree(h[call.out]) = (IF call.key THEN 1 ELSE 2)
            /\ h[call.out].scale = call.mul.scales[1] * call.mul.scales[2]
    /\ (call.op = "Relinearize" /\ call.status = "ok" /\ MulOfCiphertexts /\ ~call.mul.key) =>
            /\ ElDegree(h[call.out]) = 1
            /\ h[call.out].scale = call.mul.scales[1] * call.mul.scales[2]

\* An operand MulRelin rejects: outside the NTT domain or of degree above 1.
BadMulOperands(hp, a, b) ==
    \/ ~hp[a].isNTT
    \/ ~hp[b].isNTT
    \/ ElDegree(hp[a]) > 1
    \/ ElDegree(hp[b]) > 1

\* C10: MulRelin panics whenever an operand is outside the NTT domain or has
\* a degree above 1, and the receiver is then as it was before the call:
\* level, degree, scale and residues.
MulRelinFailsUnchanged ==
    (/\ call.op = "MulRelin"
     /\ call.op0 # Nil /\ call.op1 # Nil /\ call.out # Nil
     /\ BadMulOperands(h0, call.op0, call.op1)) =>
        /\ call.status = "panic"
        /\ h[call.out] = h0[call.out]

\* The value of digit beta of cx at `level`, out of the NTT domain: the
\* integer below the product of the digit's moduli with cx's residues.
DigitValue(level, beta, cx) ==
    LET rows == DigitRows(level, beta)
        bound == ProdSeq([n \in 1..Cardinality(rows) |-> QMod[beta * Alpha + n]])
        coeffs == Stored([x \in 1..(level + 1) |-> InvNTTRow(cx[x], QMod[x])])
    IN  Stored([k \in DOMAIN cx[1] |->
            CHOOSE v \in 0..(bound - 1) : \A x \in rows : v % QMod[x] = coeffs[x][k]])

\* Row x (a modulus of Q or of P) of sum over the digits of digit * key[c].
RECURSIVE KeySwitchSum(_, _, _, _, _, _)
KeySwitchSum(level, beta, cx, evakey, c, x) ==
    IF beta = 0 THEN ZeroRowN(Len(cx[1]))
    ELSE LET m == QPMod[x]
             v == DigitValue(level, beta - 1, cx)
             d == NTTRow([k \in DOMAIN v |-> v[k] % m], m)
             rest == KeySwitchSum(level, beta - 1, cx, evakey, c, x)
         IN  Stored([k \in DOMAIN v |-> (rest[k] + MRed(evakey[beta][c][x][k], d[k], m)) % m])

\* Row i of the key-switch of cx under evakey, component c: the sum over the
\* digits, less its value modulo P, divided by P.
KeySwitchReference(level, cx, evakey, c, i) ==
    LET q == QMod[i]
        sumQ == KeySwitchSum(level, Beta(level), cx, evakey, c, i)
        sumP == Stored([j \in 1..NumP |->
                    InvNTTRow(KeySwitchSum(level, Beta(level), cx, evakey, c, NumQ + j),
                              PMod[j])])
        low == Stored([k \in DOMAIN sumQ |-> CRTLiftP([j \in 1..NumP |-> sumP[j][k]])])
        lowNTT == NTTRow([k \in DOMAIN sumQ |-> low[k] % q], q)
    IN  Stored([k \in DOMAIN sumQ |-> ((sumQ[k] + (q - lowNTT[k])) * PInvQ[i]) % q])

\* A Relinearize call the evaluator can carry out: a key, and a receiver of
\* degree at least 1 with no more levels than the input.
RelinearizeAdmits ==
    /\ call.key
    /\ call.out # Nil
    /\ ElDegree(h0[call.out]) >= 1
    /\ ElLevel(h0[call.out]) <= ElLevel(h0[call.op0])

\* C11: Relinearize panics unless its input has degree exactly 2, leaving the
\* heap as it was; on an input of degree 2 it returns a receiver of degree 1
\* that carries the input's scale and holds, on its rows, (ct0[0], ct0[1])
\* plus the key-switch of ct0[2] under the relinearization key, for a distinct
\* receiver and for ctOut = ct0.
RelinearizeResult ==
    call.op = "Relinearize" =>
        IF ElDegree(h0[call.op0]) # 2
        THEN call.status = "panic" /\ h = h0
        ELSE RelinearizeAdmits =>
                LET in == h0[call.op0]
                    o == h[call.out]
                    level == ElLevel(o)
                IN  /\ call.status = "ok"
                    /\ ElDegree(o) = 1
                    /\ o.scale = in.scale
                    /\ level = ElLevel(h0[call.out])
                    /\ \A u \in 1..2, i \in 1..(level + 1) :
                            o.value[u].rows[i] =
                                LET ksw == KeySwitchReference(level, Coeffs(in.value[3]),
                                                              EvaKey, u, i)
                                IN  [k \in Slots |->
                                        (in.value[u].rows[i][k] + ksw[k]) % QMod[i]]

\* Relinearize returned into a distinct receiver below the input's level.
RelinearizeResultWitness ==
    /\ call.op = "Relinearize"
    /\ call.status = "ok"
    /\ call.out # call.op0
    /\ ElLevel(h0[call.out]) < ElLevel(h0[call.op0])
    /\ ElLevel(h0[call.out]) > 0


(***************************************************************************)
(* Rescale and RescaleMany.  A float64 scale is held as an integer; the    *)
(* callers' scales are multiples of every modulus, so that each quotient   *)
(* DivScale computes is that integer exactly.  A threshold is an integer.  *)
(***************************************************************************)
\* ring.Poly.Copy of part src into part dst: the rows src shows.
CopyPart(dst, src) ==
    [dst EXCEPT !.rows = [i \in 1..Len(@) |-> IF i <= src.len THEN src.rows[i] ELSE @[i]]]

\* ckksElement.Copy: the parts, the scale and the domain flag of src.
Copy(el, src) ==
    [value |-> [u \in 1..Len(el.value) |->
                    IF u <= Len(src.value) THEN CopyPart(el.value[u], src.value[u])
                    ELSE el.value[u]],
     scale |-> src.scale,
     isNTT |-> src.isNTT]

\* DivScale
DivScale(el, q) == [el EXCEPT !.scale = @ \div q]

\* DivRoundByLastModulusNTT on one part: every row below the last holds
\* round(x / qL), x the value the rows stand for, (x + h - ((x + h) mod qL)) / qL
\* with h = (qL - 1) / 2; the part then shows one row less.
DivRoundByLastModulusNTT(part) ==
    LET level == part.len - 1
        qL == QMod[level + 1]
        half == (qL - 1) \div 2
        last == InvNTTRow(part.rows[level + 1], qL)
        low == Stored([k \in Slots |-> (last[k] + half) % qL])
    IN  [rows |-> Stored([i \in 1..Len(part.rows) |->
                    IF i <= level
                    THEN LET q == QMod[i]
                             up == NTTRow([k \in Slots |-> half % q], q)
                             down == NTTRow([k \in Slots |-> low[k] % q], q)
                         IN  [k \in Slots |->
                                ((part.rows[i][k] + up[k] + (q - down[k])) * InvOf(qL % q, q)) % q]
                    ELSE part.rows[i]]),
         len |-> level]

\* DivRoundByLastModulusManyNTT
RECURSIVE DivRoundByLastModulusManyNTT(_, _)
DivRoundByLastModulusManyNTT(part, nbRescales) ==
    IF nbRescales = 0 THEN part
    ELSE DivRoundByLastModulusManyNTT(DivRoundByLastModulusNTT(part), nbRescales - 1)

\* The loop condition of Rescale:
\* scale >= threshold * Modulus[level] / 2 on the integers.
AboveThreshold(el, threshold) == 2 * el.scale >= threshold * QMod[ElLevel(el) + 1]

\* One iteration of the loop of Rescale on c1.
RescaleStep(el) ==
    With(DivScale(el, QMod[ElLevel(el) + 1]), LAMBDA scaled :
        [scaled EXCEPT !.value = [u \in 1..Len(@) |-> DivRoundByLastModulusNTT(@[u])]])

\* A Rescale that divides once.
RescaleLoopOnce(el, threshold, iters) ==
    IF AboveThreshold(el, threshold) /\ ElLevel(el) # 0
    THEN [el |-> RescaleStep(el), iters |-> iters + 1]
    ELSE [el |-> el, iters |-> iters]

\* The loop of Rescale: [el, iters].
RECURSIVE RescaleLoop(_, _, _)
RescaleLoop(el, threshold, iters) ==
    IF AboveThreshold(el, threshold) /\ ElLevel(el) # 0
    THEN RescaleLoop(RescaleStep(el), threshold, iters + 1)
    ELSE [el |-> el, iters |-> iters]

Outcome(hp, status, reason, iters) ==
    [h |-> hp, status |-> status, reason |-> reason, iters |-> iters]

\* A Rescale that compares the levels before it looks for level 0.
RescaleLevelsFirst(hp, ct0, threshold, c1) ==
    IF ElLevel(hp[ct0]) # ElLevel(hp[c1])
    THEN Outcome(hp, "panic",
                 "cannot rescale -> reciever ciphertext does not match input ciphertext level", 0)
    ELSE IF ElLevel(hp[ct0]) = 0
    THEN Outcome(hp, "error", "cannot rescale -> input ciphertext already at level 0", 0)
    ELSE Outcome([hp EXCEPT ![c1] = RescaleLoop(IF c1 = ct0 THEN @ ELSE Copy(@, hp[ct0]),
                                                threshold, 0).el],
                 "ok", "", 0)

\* Rescale(ct0, threshold, c1) on the heap: status is "ok" for a nil error,
\* "error" for a returned error, "panic" for a panic.
Rescale(hp, ct0, threshold, c1) ==
    IF ElLevel(hp[ct0]) = 0
    THEN Outcome(hp, "error", "cannot rescale -> input ciphertext already at level 0", 0)
    ELSE IF ElLevel(hp[ct0]) # ElLevel(hp[c1])
    THEN Outcome(hp, "panic",
                 "cannot rescale -> reciever ciphertext does not match input ciphertext level", 0)
    ELSE IF AboveThreshold([hp[ct0] EXCEPT !.value = hp[c1].value], threshold)
    THEN IF ~hp[ct0].isNTT
         THEN Outcome(hp, "panic", "cannot rescale -> input ciphertext not in NTT", 0)
         ELSE With(RescaleLoop(IF c1 = ct0 THEN hp[c1] ELSE Copy(hp[c1], hp[ct0]),
                               threshold, 0),
                   LAMBDA r : Outcome([hp EXCEPT ![c1] = r.el], "ok", "", r.iters))
    ELSE Outcome([hp EXCEPT ![c1] = IF c1 = ct0 THEN @ ELSE Copy(@, hp[ct0])], "ok", "", 0)

\* A DivScale loop that divides by the last modulus every time.
DivScaleManyLast(el, level, nbRescales) ==
    [el EXCEPT !.scale = @ \div (QMod[level + 1] ^ nbRescales)]

\* The scale after nbRescales DivScale by Modulus[level - i], level fixed.
RECURSIVE DivScaleMany(_, _, _)
DivScaleMany(el, level, nbRescales) ==
    IF nbRescales = 0 THEN el
    ELSE DivScale(DivScaleMany(el, level, nbRescales - 1), QMod[level - (nbRescales - 1) + 1])

\* RescaleMany(ct0, nbRescales, c1) on the heap.
RescaleMany(hp, ct0, nbRescales, c1) ==
    IF ElLevel(hp[ct0]) < nbRescales
    THEN Outcome(hp, "error", "cannot rescale many -> input ciphertext level too low", 0)
    ELSE IF ElLevel(hp[ct0]) # ElLevel(hp[c1])
    THEN Outcome(hp, "panic",
            "cannot rescale many -> reciever ciphertext does not match input ciphertext level", 0)
    ELSE IF ~hp[ct0].isNTT
    THEN Outcome(hp, "panic", "cannot rescale many -> input ciphertext not in NTT", 0)
    ELSE With(DivScaleMany(IF c1 = ct0 THEN hp[c1] ELSE Copy(hp[c1], hp[ct0]),
                           ElLevel(hp[c1]), nbRescales),
              LAMBDA scaled :
                Outcome([hp EXCEPT ![c1] =
                            [scaled EXCEPT !.value =
                                [u \in 1..Len(@) |->
                                    DivRoundByLastModulusManyNTT(@[u], nbRescales)]]],
                        "ok", "", nbRescales))

\* The calls a run makes before it stops.
MaxRescaleCalls == 3

NoRescaleCall == [op |-> "none", op0 |-> Nil, op1 |-> Nil, out |-> Nil, key |-> FALSE,
                  status |-> "none", reason |-> "", mul |-> NoMul,
                  arg |-> 0, iters |-> 0, count |-> 0]

\* The product of the moduli of Q.
ModulusBigintQ == ProdSeq(QMod)

RescaleScales == {ModulusBigintQ, 3 * ModulusBigintQ}

\* Thresholds: below every scale, between the scales a chain goes through,
\* above every scale.
Thresholds == {1, 1000, ModulusBigintQ}

RescaleCounts == 0..NumQ

RescaleInit ==
    /\ \E dA \in 0..1, lA \in 0..(NumQ - 1), sA \in RescaleScales, nttA \in BOOLEAN,
          dR \in 0..1, lR \in 0..(NumQ - 1) :
             /\ dR >= dA
             /\ h = [id \in ElementIds |->
                    CASE id = "A" -> InputElement(1, dA, lA, lA + 1, sA, nttA)
                      [] id = "R" -> InputElement(4, dR, lR, lR + 1, ModulusBigintQ, TRUE)
                      [] id = "B" -> NewCiphertext(0, 0, DefaultScale)
                      [] OTHER -> NewCtxPool]
    /\ h0 = h
    /\ call = NoRescaleCall
    /\ CKSIdle

\* A call of Rescale or RescaleMany; a run ends with a panic.
Rescaled(r, op, a, arg, o) ==
    /\ call.status # "panic"
    /\ call.count < MaxRescaleCalls
    /\ h' = r.h
    /\ h0' = h
    /\ call' = [op |-> op, op0 |-> a, op1 |-> Nil, out |-> o, key |-> FALSE,
                status |-> r.status, reason |-> r.reason, mul |-> NoMul,
                arg |-> arg, iters |-> r.iters, count |-> call.count + 1]
    /\ UNCHANGED cksVars

CallRescale(a, threshold, o) == Rescaled(Rescale(h, a, threshold, o), "Rescale", a, threshold, o)

CallRescaleMany(a, n, o) == Rescaled(RescaleMany(h, a, n, o), "RescaleMany", a, n, o)

RescaleIds == {"A", "R"}

RescaleNext ==
    \/ \E a, o \in RescaleIds, t \in Thresholds : CallRescale(a, t, o)
    \/ \E a, o \in RescaleIds, n \in RescaleCounts : CallRescaleMany(a, n, o)

SpecRescale == RescaleInit /\ [][RescaleNext]_vars


(***************************************************************************)
(* Properties of Rescale and RescaleMany.                                  *)
(***************************************************************************)
\* q[L] * q[L-1] * ... * q[L-d+1]
LastModuli(L, d) == ProdSeq([n \in 1..d |-> QMod[L + 1 - (n - 1)]])

\* Every part of el shows rows 0..level.
PartsAtLevel(el, level) == \A u \in 1..Len(el.value) : el.value[u].len = level + 1

\* C12: when Rescale returns without error, the receiver's scale is below
\* threshold * q[level] / 2 or its level is 0; the loop ran d times for a d
\* of at most level(ct0), every part of the receiver is at level
\* level(ct0) - d and the scale is scale(ct0) / (q[L] * ... * q[L-d+1]).
RescaleIsLoop ==
    (call.op = "Rescale" /\ call.status = "ok") =>
        LET in == h0[call.op0]
            o == h[call.out]
            L == ElLevel(in)
            d == L - ElLevel(o)
        IN  /\ ~AboveThreshold(o, call.arg) \/ ElLevel(o) = 0
            /\ d \in 0..L
            /\ call.iters = d
            /\ PartsAtLevel(o, L - d)
            /\ o.scale * LastModuli(L, d) = in.scale

\* Rescale divided once and stopped above level 0, into another element.
RescaleIsLoopWitness ==
    /\ call.op = "Rescale"
    /\ call.status = "ok"
    /\ call.out # call.op0
    /\ call.iters = 1
    /\ ElLevel(h[call.out]) = 1

\* C13: Rescale never raises a level: the receiver is never above where it
\* was and, when Rescale returns without error, not above the input; on an
\* input at level 0 Rescale returns an error, does not panic, and leaves
\* the heap as it was.
RescaleMonotone ==
    call.op = "Rescale" =>
        /\ \A u \in 1..Len(h[call.out].value) :
                h[call.out].value[u].len <= h0[call.out].value[u].len
        /\ call.status = "ok" => ElLevel(h[call.out]) <= ElLevel(h0[call.op0])
        /\ ElLevel(h0[call.op0]) = 0 => (call.status = "error" /\ h = h0)

\* A Rescale of an element that earlier rescales brought to level 0, into a
\* receiver above level 0.
RescaleMonotoneWitness ==
    /\ call.op = "Rescale"
    /\ call.count >= 2
    /\ call.status = "error"
    /\ ElLevel(h0[call.op0]) = 0
    /\ h0[call.op0].scale < ModulusBigintQ
    /\ ElLevel(h0[call.out]) > 0

\* C14: Rescale fails (returns an error or panics) on every input that is
\* not in the NTT domain, whatever its scale and the threshold.
RescaleFailsOutsideNTT ==
    (call.op = "Rescale" /\ ~h0[call.op0].isNTT) => call.status \in {"error", "panic"}

\* C15: RescaleMany(ct0, n, c1) returns an error and leaves the heap as it
\* was when level(ct0) < n; otherwise, on an input in the NTT domain and a
\* receiver at the input's level, it returns with every part of c1 at level
\* level(ct0) - n and scale(ct0) / (q[L] * ... * q[L-n+1]), whatever the
\* scale.
RescaleManyExact ==
    call.op = "RescaleMany" =>
        LET in == h0[call.op0]
            o == h[call.out]
            L == ElLevel(in)
            n == call.arg
        IN  IF L < n THEN call.status = "error" /\ h = h0
            ELSE /\ (in.isNTT /\ ElLevel(h0[call.out]) = L) <=> call.status = "ok"
                 /\ call.status = "ok" =>
                        /\ PartsAtLevel(o, L - n)
                        /\ o.scale * LastModuli(L, n) = in.scale
                        /\ call.iters = n

\* RescaleMany took two levels from an element into another.
RescaleManyExactWitness ==
    /\ call.op = "RescaleMany"
    /\ call.status = "ok"
    /\ call.arg = 2
    /\ call.out # call.op0
    /\ ElLevel(h[call.out]) = 0


(***************************************************************************)
(* Column rotations.  The rotation context has degree RotRingN: its        *)
(* N/2 = RotSlots slots are rotated by the Galois automorphisms            *)
(* X -> X^(GaloisGen^k).  The rotation keys are the key generator's: for   *)
(* every amount a switching key from sigma(s) - s to s, one pair per       *)
(* digit, in the NTT domain and in Montgomery form, and the index table of *)
(* the automorphism.                                                       *)
(***************************************************************************)
\* evaluator.ckksContext.n >> 1
RotSlots == RotRingN \div 2
GaloisGen == 5

\* The Galois element of the left rotation by k, and of the right rotation
\* by k (its inverse modulo 2N).
GaloisLeft(k) == PowMod(GaloisGen, k % RotSlots, 2 * RotRingN)
GaloisRightSameAsLeft(k) == PowMod(GaloisGen, k % RotSlots, 2 * RotRingN)
GaloisRight(k) == PowMod(GaloisGen, (RotSlots - (k % RotSlots)) % RotSlots, 2 * RotRingN)

\* ring.PermuteNTTIndex: slot j holds the value at psi^(2j - 1); after the
\* automorphism by g it holds the value at psi^((2j - 1) * g).
PermuteNTTIndex(g) ==
    [j \in 1..RotRingN |-> ((((2 * j - 1) * g) % (2 * RotRingN)) + 1) \div 2]

\* ring.PermuteNTTWithIndex(polIn, index, polOut)
PermuteNTTWithIndex(polIn, index, polOut) ==
    Stored([i \in 1..Len(polOut) |->
        IF i <= Len(polIn) THEN [j \in DOMAIN polIn[i] |-> polIn[i][index[j]]]
        ELSE polOut[i]])

\* The secret key of the rotation context: ternary coefficients.
RotSecret == [k \in 1..RotRingN |-> IF k \in {1, 10} THEN 1 ELSE IF k = 4 THEN -1 ELSE 0]
RotSecretNTT ==
    [x \in 1..(NumQ + NumP) |-> NTTRow([k \in 1..RotRingN |-> RotSecret[k] % QPMod[x]], QPMod[x])]

\* The uniform polynomial of digit i of the key of Galois element g.
RotKeyA(g, i) ==
    Stored([x \in 1..(NumQ + NumP) |->
        [k \in 1..RotRingN |-> (11 + 2 * i + 3 * g + 5 * x + 7 * k + k * k) % QPMod[x]]])

\* newSwitchingKey(sigma_g(s) - s, s): digit i is (-a*s + P*(sigma_g(s) - s)
\* on the rows of the digit, -a*s elsewhere; a), without error.
RotKeyB(g, i) ==
    Stored([x \in 1..(NumQ + NumP) |->
        [k \in 1..RotRingN |->
            LET m == QPMod[x]
                skNTT == RotSecretNTT[x]
                src == (skNTT[PermuteNTTIndex(g)[k]] + (m - skNTT[k])) % m
                own == x <= NumQ /\ (i - 1) * Alpha < x /\ x <= i * Alpha
            IN  ((m - ((RotKeyA(g, i)[x][k] * skNTT[k]) % m))
                   + (IF own THEN ((ModulusBigintP % m) * src) % m ELSE 0)) % m]])

MFormPoly(p, mods) ==
    Stored([x \in 1..Len(p) |-> [k \in DOMAIN p[x] |-> MForm(p[x][k], mods[x])]])

SwitchingKeyOf(g) ==
    [i \in 1..Beta(NumQ - 1) |->
        <<MFormPoly(RotKeyB(g, i), QPMod), MFormPoly(RotKeyA(g, i), QPMod)>>]

GaloisElements == {GaloisLeft(k) : k \in 0..(RotSlots - 1)}
SwitchingKeys == [g \in GaloisElements |-> SwitchingKeyOf(g)]
PermuteIndexes == [g \in GaloisElements |-> PermuteNTTIndex(g)]

\* RotationKeys: the amounts evakeyRotColLeft and evakeyRotColRight hold a
\* key for (with its index table); a nil pointer has isNil.
NewRotationKeys(left, right) == [isNil |-> FALSE, left |-> left, right |-> right]
NilRotationKeys == [isNil |-> TRUE, left |-> {}, right |-> {}]
Pow2Amounts == {i \in 1..(RotSlots - 1) : \E e \in 0..RotSlots : 2 ^ e = i}

\* utils.HammingWeight64; a difference that wrapped around is the complement
\* of -x - 1 on 64 bits.
RECURSIVE HammingWeight64(_)
HammingWeight64(x) ==
    IF x = 0 THEN 0
    ELSE IF x < 0 THEN 64 - HammingWeight64(-x - 1)
    ELSE (x % 2) + HammingWeight64(x \div 2)

\* The outcome of a rotation: the heap, whether it panicked, and the
\* permutations done, each <<direction, amount>>.
Rotated(hp, panic, reason, log) == [h |-> hp, panic |-> panic, reason |-> reason, log |-> log]

\* permuteNTT(ct0, index, evakey, ctOut): both parts are permuted into ctOut
\* (through the ring pool when ct0 = ctOut), then ctOut's second part is
\* key-switched into ctOut.
PermuteNTT(hp, ct0, g, opOut) ==
    IF ElLevel(hp[opOut]) < ElLevel(hp[ct0]) THEN Panic(hp, "index out of range")
    ELSE
    With([u \in 1..2 |->
            PermuteNTTWithIndex(Coeffs(hp[ct0].value[u]), PermuteIndexes[g],
                                IF ct0 # opOut THEN Coeffs(hp[opOut].value[u])
                                ELSE ZeroPolyN(NumQ, RotRingN))],
         LAMBDA el :
    With(MinUint64(ElLevel(hp[ct0]), ElLevel(hp[opOut])), LAMBDA level :
    With([hp EXCEPT ![opOut] = WritePart(WritePart(@, 1, level, el[1]), 2, level, el[2])],
         LAMBDA h1 :
    With(SwitchKeysInPlace(Coeffs(h1[opOut].value[2]), SwitchingKeys[g], h1[opOut]),
         LAMBDA r :
            IF r.panic THEN Panic([h1 EXCEPT ![opOut] = r.el], "index out of range")
            ELSE Return([h1 EXCEPT ![opOut] = r.el])))))

\* The Galois element behind permuteNTTLeftIndex / permuteNTTRightIndex.
GaloisOf(dir, amount) == IF dir = "L" THEN GaloisLeft(amount) ELSE GaloisRight(amount)

\* The loop of rotateColumnsPow2 over the bits of k.
RECURSIVE RotateColumnsPow2Loop(_, _, _, _, _)
RotateColumnsPow2Loop(st, k, evakeyIndex, dir, opOut) ==
    IF k = 0 \/ st.panic THEN st
    ELSE IF k % 2 = 1
    THEN With(PermuteNTT(st.h, opOut, GaloisOf(dir, evakeyIndex), opOut), LAMBDA r :
            RotateColumnsPow2Loop(
                Rotated(r.h, r.panic, r.reason, Append(st.log, <<dir, evakeyIndex>>)),
                k \div 2, 2 * evakeyIndex, dir, opOut))
    ELSE RotateColumnsPow2Loop(st, k \div 2, 2 * evakeyIndex, dir, opOut)

\* rotateColumnsPow2: ct0 is copied to ctOut, then rotated in place.
RotateColumnsPow2(hp, ct0, k, dir, opOut) ==
    With(MinUint64(ElLevel(hp[ct0]), ElLevel(hp[opOut])), LAMBDA level :
        RotateColumnsPow2Loop(
            Rotated([hp EXCEPT ![opOut] =
                        WritePart(WritePart(@, 1, level, Coeffs(hp[ct0].value[1])),
                                  2, level, Coeffs(hp[ct0].value[2]))],
                    FALSE, "", <<>>),
            k, 1, dir, opOut))

\* k &= (n >> 1) - 1
KeepAmount(k) == k
ReduceAmount(k) == k % RotSlots

\* hasPow2Rotations
HasPow2Rotations(evakey) ==
    \A i \in Pow2Amounts : i \in evakey.left /\ i \in evakey.right

\* The ladder goes left when k has no more bits than n/2 - k.
LadderAlwaysLeft(k) == TRUE
LadderGoesLeft(k) == HammingWeight64(k) <= HammingWeight64(RotSlots - k)

RotateColumns(hp, ct0, amount, evakey, opOut) ==
    IF ElDegree(hp[ct0]) # 1 \/ ElDegree(hp[opOut]) # 1
    THEN Rotated(hp, TRUE, "cannot rotate -> input and output ciphertext must be of degree 1",
                 <<>>)
    ELSE With(ReduceAmount(amount), LAMBDA k :
        IF k = 0 THEN Rotated([hp EXCEPT ![opOut] = Copy(@, hp[ct0])], FALSE, "", <<>>)
        ELSE With([hp EXCEPT ![opOut].scale = hp[ct0].scale], LAMBDA h1 :
            IF evakey.isNil THEN Rotated(h1, TRUE, "nil pointer dereference", <<>>)
            ELSE IF k \in evakey.left
            THEN With(PermuteNTT(h1, ct0, GaloisLeft(k), opOut), LAMBDA r :
                    Rotated(r.h, r.panic, r.reason, <<(<<"L", k>>)>>))
            ELSE IF HasPow2Rotations(evakey)
            THEN IF LadderGoesLeft(k)
                 THEN RotateColumnsPow2(h1, ct0, k, "L", opOut)
                 ELSE RotateColumnsPow2(h1, ct0, RotSlots - k, "R", opOut)
            ELSE Rotated(h1, TRUE,
                    "cannot rotate -> specific rotation and pow2 rotations have not been generated",
                    <<>>)))

\* The rotation keys a caller may hold: none, no key at all, keys for some
\* amounts only, a left ladder without the right one, the full ladder, and
\* every key.
RotationKeySets ==
    {NilRotationKeys,
     NewRotationKeys({}, {}),
     NewRotationKeys({3, 6}, {}),
     NewRotationKeys(Pow2Amounts, {1}),
     NewRotationKeys(Pow2Amounts, Pow2Amounts),
     NewRotationKeys(1..(RotSlots - 1), 1..(RotSlots - 1))}

\* The amounts a caller passes: below, at and above n/2.
RotationAmounts == 0..(RotSlots + 1)

RotInputRow(seed, u, i) ==
    Stored([k \in 1..RotRingN |-> (seed + 3 * u + 5 * i + 7 * k + u * k * k) % QMod[i]])

\* A ciphertext of the rotation context in the NTT domain.
RotInputElement(seed, degree, level, scale) ==
    [value |-> [u \in 1..(degree + 1) |->
                    [rows |-> [i \in 1..(level + 1) |-> RotInputRow(seed, u, i)],
                     len |-> level + 1]],
     scale |-> scale, isNTT |-> TRUE]

NoRotation == [op0 |-> Nil, out |-> Nil, arg |-> 0, status |-> "none", log |-> <<>>]

NoRotateCall == [op |-> "none", op0 |-> Nil, op1 |-> Nil, out |-> Nil, key |-> FALSE,
                 status |-> "none", reason |-> "", mul |-> NoMul,
                 arg |-> 0, keys |-> NilRotationKeys, log |-> <<>>, count |-> 0,
                 first |-> NoRotation, orig |-> NoCt]

\* The input A, and a receiver R at A's level as RotateColumnsNew makes it
\* (or of another degree).
RotateInit ==
    /\ \E dA \in 1..2, dR \in 1..2, level \in 1..(NumQ - 1) :
          h = [id \in ElementIds |->
                CASE id = "A" -> RotInputElement(1, dA, level, ModulusBigintQ)
                  [] id = "R" -> RotInputElement(4, dR, level, DefaultScale)
                  [] id = "B" -> NewCiphertext(0, 0, DefaultScale)
                  [] OTHER -> NewCtxPool]
    /\ h0 = h
    /\ call = NoRotateCall
    /\ CKSIdle

RotateReturned(r, a, k, keys, o) ==
    /\ h' = r.h
    /\ h0' = h
    /\ call' = [op |-> "RotateColumns", op0 |-> a, op1 |-> Nil, out |-> o, key |-> FALSE,
                status |-> IF r.panic THEN "panic" ELSE "ok", reason |-> r.reason,
                mul |-> NoMul, arg |-> k, keys |-> keys, log |-> r.log,
                count |-> call.count + 1,
                first |-> IF call.count = 0
                          THEN [op0 |-> a, out |-> o, arg |-> k,
                                status |-> IF r.panic THEN "panic" ELSE "ok", log |-> r.log]
                          ELSE call.first,
                orig |-> IF call.count = 0 THEN h[a] ELSE call.orig]
    /\ UNCHANGED cksVars

\* RotateColumns(ct0, k, evakey, ctOut) on a fresh input.
CallRotateColumns(a, k, keys, o) ==
    /\ call.count = 0
    /\ \E r \in {RotateColumns(h, a, k, keys, o)} : RotateReturned(r, a, k, keys, o)

\* RotateColumns(ct, n/2 - k, evakey, ctOut) on the result of a rotation by k.
CallRotateBack(keys, o) ==
    /\ call.count = 1
    /\ call.status = "ok"
    /\ \E r \in {RotateColumns(h, call.out, RotSlots - call.arg, keys, o)} :
            RotateReturned(r, call.out, RotSlots - call.arg, keys, o)

RotateIds == {"A", "R"}

RotateNext ==
    \/ \E a, o \in RotateIds, k \in RotationAmounts, keys \in RotationKeySets :
            CallRotateColumns(a, k, keys, o)
    \/ \E o \in RotateIds, keys \in RotationKeySets : CallRotateBack(keys, o)

SpecRotate == RotateInit /\ [][RotateNext]_vars


(***************************************************************************)
(* Properties of RotateColumns.  The message a ciphertext (c0, c1) carries *)
(* is its phase c0 + c1*s; slot t of a row is the phase's value at         *)
(* psi^(GaloisGen^t), its conjugate slot the value at psi^-(GaloisGen^t).  *)
(* A key-switch adds a rounding error to the phase: at most one unit per   *)
(* nonzero coefficient of the secret, and one.                             *)
(***************************************************************************)
\* The position in a row of slot t, or of its conjugate.
SlotPosition(t, conj) ==
    LET e == PowMod(GaloisGen, t, 2 * RotRingN)
    IN  ((IF conj THEN 2 * RotRingN - e ELSE e) + 1) \div 2

SlotAt ==
    [j \in 1..RotRingN |->
        CHOOSE tc \in (0..(RotSlots - 1)) \X BOOLEAN : SlotPosition(tc[1], tc[2]) = j]

\* The row whose slots are those of `row` rotated to the left by k.
RotateSlotsLeft(row, k) ==
    [j \in 1..RotRingN |->
        row[SlotPosition((SlotAt[j][1] + k) % RotSlots, SlotAt[j][2])]]

\* Row i of the phase of a ciphertext of degree 1.
RotPhaseRow(el, i) ==
    Stored([k \in 1..RotRingN |->
        (el.value[1].rows[i][k] + el.value[2].rows[i][k] * RotSecretNTT[i][k]) % QMod[i]])

Centered(x, q) == IF 2 * x > q THEN x - q ELSE x

\* The coefficients, row by row, of phase(el) less phase(ref) rotated to the
\* left by k slots.
PhaseDifference(el, ref, k) ==
    Stored([i \in 1..(ElLevel(el) + 1) |->
        InvNTTRow(With(RotPhaseRow(el, i), LAMBDA got :
                  With(Stored(RotateSlotsLeft(RotPhaseRow(ref, i), k)), LAMBDA want :
                    [j \in 1..RotRingN |-> (got[j] + (QMod[i] - want[j])) % QMod[i]])),
                  QMod[i])])

\* phase(el) is phase(ref) rotated to the left by k slots, up to an error
\* of at most `bound` on every coefficient.
PhaseIsRotation(el, ref, k, bound) ==
    With(PhaseDifference(el, ref, k), LAMBDA diff :
        \A c \in 1..RotRingN :
            /\ Centered(diff[1][c], QMod[1]) <= bound
            /\ -Centered(diff[1][c], QMod[1]) <= bound
            /\ \A i \in DOMAIN diff : diff[i][c] = Centered(diff[1][c], QMod[1]) % QMod[i])

\* The rounding error of one key-switch.
KeySwitchNoise == 1 + Cardinality({k \in 1..RotRingN : RotSecret[k] # 0})

\* The number of bits set in x.
Popcount(x) == Cardinality({e \in 0..RotSlots : (x \div (2 ^ e)) % 2 = 1})

\* The rows of the first two parts of an element, up to its level.
VisibleRows(el) == [u \in 1..2 |-> Coeffs(el.value[u])]

\* C16: RotateColumns panics, leaving the heap as it was, when ct0 or ctOut
\* is not of degree 1.  Otherwise, with k the amount modulo N/2: for k = 0
\* it copies ct0 to ctOut, whatever the keys, with no permutation and no
\* key-switch; else, when the left key of exactly k exists, it does one
\* permutation and one key-switch, with that key, and ctOut holds ct0 rotated
\* by k; else, when the left and right keys of every power of two below N/2
\* exist, it goes through power-of-two rotations; otherwise it panics.
RotateColumnsDispatch ==
    call.op = "RotateColumns" =>
        LET k == call.arg % RotSlots
            in == h0[call.op0]
            keys == call.keys
        IN  IF ElDegree(in) # 1 \/ ElDegree(h0[call.out]) # 1
            THEN call.status = "panic" /\ h = h0
            ELSE IF k = 0
            THEN /\ call.status = "ok"
                 /\ call.log = <<>>
                 /\ VisibleRows(h[call.out]) = VisibleRows(in)
                 /\ h[call.out].scale = in.scale
                 /\ \A id \in ElementIds \ {call.out} : h[id] = h0[id]
            ELSE IF ~keys.isNil /\ k \in keys.left
            THEN /\ call.status = "ok"
                 /\ call.log = <<(<<"L", k>>)>>
                 /\ PhaseIsRotation(h[call.out], in, k, KeySwitchNoise)
            ELSE IF /\ ~keys.isNil
                    /\ \A i \in Pow2Amounts : i \in keys.left /\ i \in keys.right
            THEN /\ call.status = "ok"
                 /\ call.log # <<>>
                 /\ \A n \in DOMAIN call.log : call.log[n][2] \in Pow2Amounts
            ELSE call.status = "panic"

\* An amount above N/2 was reduced and served by the exact key, with no
\* ladder at hand, into another element.
RotateColumnsDispatchWitness ==
    /\ call.op = "RotateColumns"
    /\ call.status = "ok"
    /\ call.arg > RotSlots
    /\ call.log = <<(<<"L", call.arg - RotSlots>>)>>
    /\ ~HasPow2Rotations(call.keys)
    /\ call.out # call.op0

\* The sum of the amounts of a log.
RECURSIVE LogAmount(_)
LogAmount(log) == IF log = <<>> THEN 0 ELSE Head(log)[2] + LogAmount(Tail(log))

\* C17: in the ladder fallback (0 < k < N/2, no exact key, full ladder), the
\* rotation is done by popcount(k) left power-of-two rotations when
\* popcount(k) <= popcount(N/2 - k), and by popcount(N/2 - k) right ones
\* otherwise, one for each set bit; the key-switches are
\* min(popcount(k), popcount(N/2 - k)) and ctOut holds ct0 rotated to the
\* left by k.
LadderIsMinimal ==
    (/\ call.op = "RotateColumns"
     /\ call.status = "ok"
     /\ call.arg % RotSlots # 0
     /\ call.arg % RotSlots \notin call.keys.left) =>
        LET k == call.arg % RotSlots
            left == Popcount(k) <= Popcount(RotSlots - k)
            log == call.log
        IN  /\ Len(log) = MinUint64(Popcount(k), Popcount(RotSlots - k))
            /\ \A n \in DOMAIN log :
                    /\ log[n][1] = (IF left THEN "L" ELSE "R")
                    /\ log[n][2] \in Pow2Amounts
                    /\ \A m \in DOMAIN log : m < n => log[m][2] < log[n][2]
            /\ LogAmount(log) = (IF left THEN k ELSE RotSlots - k)
            /\ PhaseIsRotation(h[call.out], h0[call.op0], k, Len(log) * KeySwitchNoise)

\* A ladder of two left rotations into another element.
LadderIsMinimalWitness ==
    /\ call.op = "RotateColumns"
    /\ call.status = "ok"
    /\ call.arg % RotSlots \notin call.keys.left
    /\ Len(call.log) = 2
    /\ call.log[1][1] = "L"
    /\ call.out # call.op0

\* C18: after RotateColumns(ct, k) and RotateColumns of its result by
\* N/2 - k, with exact keys or through the ladder, the result holds ct with
\* its slots in their original order, at ct's scale and level.
RotationRoundTrip ==
    (call.op = "RotateColumns" /\ call.count = 2 /\ call.status = "ok") =>
        /\ call.op0 = call.first.out
        /\ (call.arg + call.first.arg) % RotSlots = 0
        /\ PhaseIsRotation(h[call.out], call.orig, 0,
                           (Len(call.first.log) + Len(call.log)) * KeySwitchNoise)
        /\ h[call.out].scale = call.orig.scale
        /\ ElLevel(h[call.out]) = ElLevel(call.orig)

\* A ladder of two rotations undone with one exact key, back into the
\* input's element.
RotationRoundTripWitness ==
    /\ call.op = "RotateColumns"
    /\ call.count = 2
    /\ call.status = "ok"
    /\ Len(call.first.log) = 2
    /\ Len(call.log) = 1
    /\ call.out = call.first.op0
    /\ call.out # call.op0


(***************************************************************************)
(* The ternary sampler in its sparse mode (ring/sampler_ternary.go).  In   *)
(* this part `h` is [ts, pol]: the sampler and the polynomial of the       *)
(* caller; the PRNG's output is an input of each call: the positions drawn *)
(* by the rejection loop and the bits of randomBytes.                      *)
(***************************************************************************)
\* ts.baseRing.N
SamplerN == 2 * RingN

\* initializeMatrix: per modulus, the values of index 0, 1 and 2.
InitializeMatrix(montgomery) ==
    [i \in 1..NumQ |->
        <<0,
          IF montgomery THEN MForm(1, QMod[i]) ELSE 1,
          IF montgomery THEN MForm(QMod[i] - 1, QMod[i]) ELSE QMod[i] - 1>>]

NewTernarySamplerSparse(hw, montgomery) ==
    [hw |-> hw, montgomery |-> montgomery, matrixValues |-> InitializeMatrix(montgomery)]

\* index[j] = index[len(index)-1]; index = index[:len(index)-1]
RemoveIndex(index, j) ==
    SubSeq([index EXCEPT ![j + 1] = index[Len(index)]], 1, Len(index) - 1)

\* The loop of sampleSparse from iteration i on: picks[i] is the j the
\* rejection loop ends with, bits[i] the binary digit read from randomBytes.
RECURSIVE SampleSparseLoop(_, _, _, _, _, _)
SampleSparseLoop(pol, ts, index, i, picks, bits) ==
    IF i >= ts.hw THEN pol
    ELSE SampleSparseLoop(
            [r \in 1..Len(pol) |->
                [pol[r] EXCEPT ![index[picks[i + 1] + 1] + 1] =
                                    ts.matrixValues[r][bits[i + 1] + 1]]],
            ts, RemoveIndex(index, picks[i + 1]), i + 1, picks, bits)

\* sampleSparse(pol): [ts, pol] afterwards.
SampleSparse(ts, pol, picks, bits) ==
    With([ts EXCEPT !.hw = IF @ > SamplerN THEN SamplerN ELSE @], LAMBDA capped :
        [ts |-> capped,
         pol |-> SampleSparseLoop(pol, capped, [n \in 1..SamplerN |-> n - 1], 0, picks, bits)])

\* The draws of one call at Hamming weight hw: j < N - i at iteration i.
SamplerPicks(hw) ==
    {p \in [1..hw -> 0..(SamplerN - 1)] : \A n \in 1..hw : p[n] < SamplerN - (n - 1)}
SamplerBits(hw) == [1..hw -> {0, 1}]

\* baseRing.NewPoly()
SamplerNewPoly == ZeroPolyN(NumQ, SamplerN)

\* The calls a run makes before it stops.
MaxSamplerCalls == 2

NoSamplerCall == [op |-> "none", status |-> "none", count |-> 0]

SamplerInit ==
    /\ \E hw \in 0..(SamplerN + 1), montgomery \in BOOLEAN :
          h = [ts |-> NewTernarySamplerSparse(hw, montgomery), pol |-> SamplerNewPoly]
    /\ h0 = h
    /\ call = NoSamplerCall
    /\ CKSIdle

Sampled(op, pol) ==
    /\ call.count < MaxSamplerCalls
    /\ \E picks \in SamplerPicks(MinUint64(h.ts.hw, SamplerN)),
          bits \in SamplerBits(MinUint64(h.ts.hw, SamplerN)) :
            h' = SampleSparse(h.ts, pol, picks, bits)
    /\ h0' = h
    /\ call' = [op |-> op, status |-> "ok", count |-> call.count + 1]
    /\ UNCHANGED cksVars

\* Read(pol) on the caller's polynomial.
CallRead == Sampled("Read", h.pol)

\* ReadNew()
CallReadNew == Sampled("ReadNew", SamplerNewPoly)

SamplerNext == CallRead \/ CallReadNew

SpecSampler == SamplerInit /\ [][SamplerNext]_vars

\* The positions of pol that are not zero in some row.
NonZeroPositions(pol) == {k \in 1..SamplerN : \E r \in DOMAIN pol : pol[r][k] # 0}

\* The coefficient at position k is v (1 or -1) in every row, in the
\* sampler's representation.
CoefficientIs(ts, pol, k, v) ==
    \A r \in DOMAIN pol :
        (IF ts.montgomery THEN InvMForm(pol[r][k], QMod[r]) ELSE pol[r][k]) = v % QMod[r]

\* C19: a polynomial sampled through Read or ReadNew of a sparse sampler has
\* exactly min(hw, N) nonzero coefficients, each +1 or -1 in every modulus
\* row, and zero everywhere else.
SparseHammingWeight ==
    call.op \in {"Read", "ReadNew"} =>
        /\ Cardinality(NonZeroPositions(h.pol)) = MinUint64(h0.ts.hw, SamplerN)
        /\ \A k \in NonZeroPositions(h.pol) :
                CoefficientIs(h.ts, h.pol, k, 1) \/ CoefficientIs(h.ts, h.pol, k, -1)


(***************************************************************************)
(* MultByConstAndAdd.  The factor the constant is scaled by is a quotient  *)
(* of scales, kept as the fraction num/den.                                *)
(***************************************************************************)
\* scaleUpExact(value, num/den, q)
ScaleUpExactRatio(v2, num, den, q) ==
    IF v2 < 0 THEN q - (((num * Abs(v2)) \div (2 * den)) % q)
    ELSE ((num * Abs(v2)) \div (2 * den)) % q

\* The Montgomery-form factors of the first and of the second half of row i
\* for the constant c scaled by num/den.
MultConstFactorsRatio(c, num, den, i) ==
    With(IF ConstReal(c) # 0 THEN ScaleUpExactRatio(ConstReal(c), num, den, QMod[i]) ELSE 0,
         LAMBDA sReal :
    With(IF ConstImag(c) # 0
         THEN MRed(ScaleUpExactRatio(ConstImag(c), num, den, QMod[i]),
                   MForm(NttPsi[QMod[i]], QMod[i]), QMod[i])
         ELSE 0,
         LAMBDA sImag :
            IF ConstImag(c) # 0
            THEN <<MForm(CRed(sReal + sImag, QMod[i]), QMod[i]),
                   MForm(CRed(sReal + (QMod[i] - sImag), QMod[i]), QMod[i])>>
            ELSE <<MForm(sReal, QMod[i]), MForm(sReal, QMod[i])>>))

\* A float64 constant: the quotient num/den, in halves.
FloatConst(num, den) == [type |-> "float64", re2 |-> (2 * num) \div den, im2 |-> 0]

\* The receiver after `evaluator.MultByConst(ctOut, c, ctOut)` and
\* `ctOut.SetScale(scale)`, the multiplication being skipped when skip holds.
RescaleReceiver(hp, opOut, c, skip, scale) ==
    IF skip THEN [hp EXCEPT ![opOut].scale = scale]
    ELSE [hp EXCEPT ![opOut] = [MultByConst(@, c, @).el EXCEPT !.scale = scale]]

\* The alignment of the scales in MultByConstAndAdd: the heap and the factor
\* [h, num, den] the constant is scaled by.
MultAddAlign(hp, ct0, c, opOut) ==
    LET s0 == hp[ct0].scale
        sOut == hp[opOut].scale
    IN  IF ConstScale(c) # 1
        THEN IF sOut < s0 * DefaultScale
             THEN [h |-> RescaleReceiver(hp, opOut, UintConst((DefaultScale * s0) \div sOut),
                                         (DefaultScale * s0) \div sOut = 0, DefaultScale * s0),
                   num |-> ConstScale(c), den |-> 1]
             ELSE IF sOut > s0 * DefaultScale
             THEN [h |-> hp, num |-> sOut, den |-> s0]
             ELSE [h |-> hp, num |-> ConstScale(c), den |-> 1]
        ELSE IF sOut > s0
             THEN [h |-> hp, num |-> sOut, den |-> s0]
             ELSE IF s0 > sOut
             THEN [h |-> RescaleReceiver(hp, opOut, FloatConst(s0, sOut),
                                         s0 \div sOut = 0, s0),
                   num |-> 1, den |-> 1]
             ELSE [h |-> hp, num |-> 1, den |-> 1]

\* The loop of MultByConstAndAdd over the rows 0..level: the receiver
\* afterwards.  A receiver with fewer parts than ct0 panics on the first
\* missing part, in row 0, after the first halves of the parts below it
\* were written.
MultAddRows(el0, c, num, den, elOut, level) ==
    [elOut EXCEPT !.value =
        [u \in 1..Len(@) |->
            IF u > Len(el0.value) THEN @[u]
            ELSE [@[u] EXCEPT !.rows =
                    [i \in 1..Len(@) |->
                        IF i > level + 1 THEN @[i]
                        ELSE With(MultConstFactorsRatio(c, num, den, i), LAMBDA f :
                            [k \in Slots |->
                                IF ElDegree(elOut) < ElDegree(el0) /\ (i > 1 \/ k > RingN \div 2)
                                THEN elOut.value[u].rows[i][k]
                                ELSE CRed(elOut.value[u].rows[i][k]
                                            + MRed(el0.value[u].rows[i][k],
                                                   f[IF k <= RingN \div 2 THEN 1 ELSE 2],
                                                   QMod[i]),
                                          QMod[i])])]]]]

\* The receiver's level is dropped to ct0's.
MultAddDropLevel(hp, ct0, opOut) ==
    IF ElLevel(hp[opOut]) > MinUint64(ElLevel(hp[ct0]), ElLevel(hp[opOut]))
    THEN [hp EXCEPT ![opOut] =
            DropLevel(@, Uint64Sub(ElLevel(@), MinUint64(ElLevel(hp[ct0]), ElLevel(@)))).el]
    ELSE hp

MultByConstAndAdd(hp, ct0, c, opOut) ==
    With(MinUint64(ElLevel(hp[ct0]), ElLevel(hp[opOut])), LAMBDA level :
    With(MultAddAlign(MultAddDropLevel(hp, ct0, opOut), ct0, c, opOut), LAMBDA al :
    With([al.h EXCEPT ![opOut] = MultAddRows(al.h[ct0], c, al.num, al.den, @, level)],
         LAMBDA h2 :
            IF ElDegree(hp[opOut]) < ElDegree(hp[ct0]) THEN Panic(h2, "index out of range")
            ELSE Return(h2))))

(***************************************************************************)
(* MultByConst on the caller's elements.                                   *)
(***************************************************************************)
\* The constants a caller passes, by Go type: integers, and floats and
\* complex numbers with and without a fractional part.
ConstInputs ==
    {[type |-> "uint64", re2 |-> 2 * n, im2 |-> 0] : n \in 0..2}
    \cup {[type |-> t, re2 |-> 2 * n, im2 |-> 0] : t \in {"int64", "int"}, n \in {-1, 0, 3}}
    \cup {[type |-> "float64", re2 |-> r, im2 |-> 0] : r \in {-3, 0, 1, 4}}
    \cup {[type |-> "complex128", re2 |-> r, im2 |-> i] : r \in {0, 1, 4}, i \in {-3, 0, 2}}

NoConstCall == [op |-> "none", op0 |-> Nil, op1 |-> Nil, out |-> Nil, key |-> FALSE,
                status |-> "none", reason |-> "", mul |-> NoMul,
                const |-> UintConst(0)]

\* The receiver's scale: below, between and above the scales of the input
\* times the default scale.
ReceiverScales == {DefaultScale, 2 * DefaultScale, 4 * DefaultScale * DefaultScale}

ConstInit ==
    /\ \E dA \in 0..1, lA \in 0..(NumQ - 1), sA \in {DefaultScale, 3 * DefaultScale},
          dR \in 0..1, lR \in 0..(NumQ - 1), sR \in ReceiverScales :
             h = [id \in ElementIds |->
                    CASE id = "A" -> InputElement(1, dA, lA, lA + 1, sA, TRUE)
                      [] id = "R" -> InputElement(4, dR, lR, lR + 1, sR, TRUE)
                      [] id = "B" -> NewCiphertext(0, 0, DefaultScale)
                      [] OTHER -> NewCtxPool]
    /\ h0 = h
    /\ call = NoConstCall
    /\ CKSIdle

\* MultByConst(ct0, constant, ctOut)
CallMultByConst(a, c, o) ==
    /\ call.status = "none"
    /\ \E r \in {MultByConst(h[a], c, h[o])} :
          /\ h' = [h EXCEPT ![o] = r.el]
          /\ call' = [op |-> "MultByConst", op0 |-> a, op1 |-> Nil, out |-> o,
                      key |-> FALSE, status |-> IF r.panic THEN "panic" ELSE "ok",
                      reason |-> IF r.panic THEN "index out of range" ELSE "",
                      mul |-> NoMul, const |-> c]
    /\ h0' = h
    /\ UNCHANGED cksVars

\* MultByConstAndAdd(ct0, constant, ctOut)
CallMultByConstAndAdd(a, c, o) ==
    /\ call.status = "none"
    /\ \E r \in {MultByConstAndAdd(h, a, c, o)} :
          /\ h' = r.h
          /\ call' = [op |-> "MultByConstAndAdd", op0 |-> a, op1 |-> Nil, out |-> o,
                      key |-> FALSE, status |-> IF r.panic THEN "panic" ELSE "ok",
                      reason |-> r.reason, mul |-> NoMul, const |-> c]
    /\ h0' = h
    /\ UNCHANGED cksVars

\* AddConst(ct0, constant, ctOut)
CallAddConst(a, c, o) ==
    /\ call.status = "none"
    /\ h' = [h EXCEPT ![o] = AddConst(h[a], c, @)]
    /\ call' = [op |-> "AddConst", op0 |-> a, op1 |-> Nil, out |-> o,
                key |-> FALSE, status |-> "ok", reason |-> "", mul |-> NoMul,
                const |-> c]
    /\ h0' = h
    /\ UNCHANGED cksVars

\* The place of the element AddConstNew returns.
NewId == "B"

\* AddConstNew(ct0, constant): ctOut = ct0.CopyNew(), AddConst(ct0, constant, ctOut)
CallAddConstNew(a, c) ==
    /\ call.status = "none"
    /\ h' = [h EXCEPT ![NewId] = AddConst(h[a], c, CopyNew(h[a]))]
    /\ call' = [op |-> "AddConstNew", op0 |-> a, op1 |-> Nil, out |-> NewId,
                key |-> FALSE, status |-> "ok", reason |-> "", mul |-> NoMul,
                const |-> c]
    /\ h0' = h
    /\ UNCHANGED cksVars

ConstIds == {"A", "R"}

ConstNext ==
    \/ \E a, o \in ConstIds, c \in ConstInputs : CallMultByConst(a, c, o)
    \/ \E a, o \in ConstIds, c \in ConstInputs : CallMultByConstAndAdd(a, c, o)
    \/ \E a, o \in ConstIds, c \in ConstInputs : CallAddConst(a, c, o)
    \/ \E a \in ConstIds, c \in ConstInputs : CallAddConstNew(a, c)

SpecConst == ConstInit /\ [][ConstNext]_vars

\* The constant is a float or a complex number whose real or imaginary part
\* is not a whole number.
IsFractional(c) ==
    /\ c.type \in {"float64", "complex128"}
    /\ \/ c.re2 % 2 = 1
       \/ c.type = "complex128" /\ c.im2 % 2 = 1

\* C20: MultByConst leaves the level of ct0 as it is; when it returns, the
\* scale of ctOut is the scale of ct0 for a constant of an integer type or
\* without fractional part, and the scale of ct0 times the default scale for
\* a constant whose real or imaginary part has a fractional part.
MultByConstScale ==
    call.op = "MultByConst" =>
        /\ ElLevel(h[call.op0]) = ElLevel(h0[call.op0])
        /\ call.status = "ok" =>
                h[call.out].scale =
                    h0[call.op0].scale * (IF IsFractional(call.const) THEN DefaultScale ELSE 1)

\* A complex constant with a whole real part and a fractional imaginary part
\* multiplied into a receiver of another level.
MultByConstScaleWitness ==
    /\ call.op = "MultByConst"
    /\ call.status = "ok"
    /\ call.const.type = "complex128"
    /\ call.const.re2 % 2 = 0
    /\ call.const.im2 % 2 = 1
    /\ call.out # call.op0
    /\ ElLevel(h0[call.out]) # ElLevel(h0[call.op0])
    /\ h[call.out].scale # h0[call.op0].scale

\* The scale ct0 would have after the multiplication by c.
ScaleAfterConst(el, c) == el.scale * (IF IsFractional(c) THEN DefaultScale ELSE 1)

\* C21: after MultByConstAndAdd(ct0, c, ctOut) returns, for every pair of
\* starting scales, the level of ctOut is the minimum of ct0's level and of
\* ctOut's earlier level, the scale of ctOut is the scale ct0 would have
\* after the multiplication by c, and a ct0 other than ctOut is as it was.
MultByConstAndAddResult ==
    (call.op = "MultByConstAndAdd" /\ call.status = "ok") =>
        /\ ElLevel(h[call.out]) = MinUint64(ElLevel(h0[call.op0]), ElLevel(h0[call.out]))
        /\ h[call.out].scale = ScaleAfterConst(h0[call.op0], call.const)
        /\ call.out # call.op0 => h[call.op0] = h0[call.op0]

\* ct0 plus the constant, as AddConstNew returns it.
AddConstReference(el0, c) == AddConst(el0, c, CopyNew(el0))

\* C22: AddConst(ct0, c, ctOut) leaves on ctOut ct0 plus the constant: the
\* first part is ct0's first part plus the constant on the rows 0..level,
\* every other part is ct0's part and the scale is ct0's scale, so that a
\* receiver other than ct0 holds what AddConstNew(ct0, c) returns.
AddConstResult ==
    call.op = "AddConst" =>
        LET level == MinUint64(ElLevel(h0[call.op0]), ElLevel(h0[call.out]))
            ref == AddConstReference(h0[call.op0], call.const)
            rows(el, u) == SubSeq(el.value[u].rows, 1, level + 1)
        IN  /\ rows(h[call.out], 1) = rows(ref, 1)
            /\ ElDegree(h[call.out]) = ElDegree(h0[call.op0])
            /\ \A u \in 2..Len(h0[call.op0].value) :
                  u <= Len(h[call.out].value) => rows(h[call.out], u) = rows(h0[call.op0], u)
            /\ h[call.out].scale = h0[call.op0].scale
            /\ call.out # call.op0 => h[call.out] = ref

(***************************************************************************)
(* Scratch pools across calls: one protocol instance running GenShare      *)
(* calls one after the other, or one evaluator running key-switches one    *)
(* after the other on its pools.                                            *)
(***************************************************************************)
MaxPoolCalls == 2

\* The accumulators left as the previous call left them.
PoolsKept(pools, n) == pools

\* for i := range evaluator.poolQ { evaluator.poolQ[i].Zero() }, and poolP
PoolsZeroed(pools, n) == ZeroPools(n)

\* What a key-switch leaves in the accumulators: ModDownSplitedNTT writes
\* its quotient into pool2Q and pool3Q.
PoolsAfter(level, fin) ==
    [pool2Q |-> ModDownSplitedNTT(level, fin.pool2Q, fin.pool2P, fin.pool2Q),
     pool3Q |-> ModDownSplitedNTT(level, fin.pool3Q, fin.pool3P, fin.pool3Q),
     pool2P |-> fin.pool2P,
     pool3P |-> fin.pool3P]

\* switchKeysInPlace from the loop over the digits on, accumulating on the
\* pools as they are: [el, panic, pools].
SwitchKeysAccumulate(pools, cx, evakey, el) ==
    IF ~Fits(ElLevel(el), cx) THEN [el |-> el, panic |-> TRUE, pools |-> pools]
    ELSE With(SwitchKeysFinal(ElLevel(el),
                SwitchKeysLoop(ElLevel(el), 0, cx,
                               InvNTTLvl(ElLevel(el), cx, ZeroPolyN(NumQ, Len(cx[1]))),
                               evakey, pools)),
              LAMBDA fin :
                With(SwitchKeysAdd(ElLevel(el), fin, el), LAMBDA r :
                    [el |-> r.el, panic |-> r.panic,
                     pools |-> PoolsAfter(ElLevel(el), fin)]))

\* The evaluator between two key-switches.
NoSwitchCall == [op |-> "switchKeysInPlace", op0 |-> Nil, op1 |-> Nil, out |-> Nil,
                 key |-> TRUE, status |-> "none", reason |-> "", mul |-> NoMul,
                 cx |-> <<>>, pools |-> ZeroPools(RingN), count |-> 0]

\* An evaluator with two degree-1 elements and pools from NewPoly, beside
\* no protocol.
PoolsEvaluatorInit ==
    /\ \E lA, lR \in 0..(NumQ - 1) :
          h = [id \in ElementIds |->
                 CASE id = "A" -> InputElement(1, 1, lA, lA + 1, DefaultScale, TRUE)
                   [] id = "R" -> InputElement(4, 1, lR, lR + 1, DefaultScale, TRUE)
                   [] OTHER -> NewCtxPool]
    /\ h0 = h
    /\ call = NoSwitchCall
    /\ CKSIdle

\* One party with its instance from NewCKSProtocol, beside no evaluator.
PoolsProtocolInit ==
    /\ ct \in CtInputs
    /\ ctIn = ct
    /\ ctOut = NoCt
    /\ pc = [p \in Parties |-> IF p = 1 THEN "Sub" ELSE "out"]
    /\ \E keys \in KeyPairs :
          skCoeffs = [p \in Parties |->
                        IF p = 1 THEN keys ELSE [in |-> <<0, 0>>, out |-> <<0, 0>>]]
    /\ share = [s \in ShareIds |-> AllocateShare]
    /\ sk = [p \in Parties |->
                [in |-> StoredKey(skCoeffs[p].in), out |-> StoredKey(skCoeffs[p].out)]]
    /\ sigmaArg = ParamsSigma
    /\ cks = [p \in Parties |-> NewCKSProtocol(sigmaArg)]
    /\ members = [s \in ShareIds |-> {}]
    /\ noise = [p \in Parties |-> <<>>]
    /\ reads = [p \in Parties |-> 0]
    /\ steps = [p \in Parties |-> <<>>]
    /\ agg = NoAgg
    /\ ks = NoKs
    /\ h = NoHeap
    /\ h0 = NoHeap
    /\ call = NoCall

PoolsInit == PoolsEvaluatorInit \/ PoolsProtocolInit

\* The party calls GenShare once more on the same instance, for the
\* ciphertext c and a share from AllocateShare; reads[p] counts the calls.
GenShareAgain(p, c) ==
    /\ pc[p] = "done"
    /\ reads[p] < MaxPoolCalls
    /\ pc' = [pc EXCEPT ![p] = "Sub"]
    /\ ct' = c
    /\ ctIn' = c
    /\ share' = [share EXCEPT ![p] = AllocateShare]
    /\ steps' = [steps EXCEPT ![p] = <<>>]
    /\ members' = [members EXCEPT ![p] = {}]
    /\ UNCHANGED <<ctOut, sk, skCoeffs, sigmaArg, cks, noise, reads, agg, ks>>
    /\ UNCHANGED evalVars

\* switchKeysInPlace(src.value[1], evakey, o) up to the zeroing of the pools.
SwitchKeysZeroStep(src, o) ==
    /\ h # NoHeap
    /\ call.status \in {"none", "ok"}
    /\ call.count < MaxPoolCalls
    /\ Fits(ElLevel(h[o]), Coeffs(h[src].value[2]))
    /\ call' = [call EXCEPT !.status = "zeroed", !.op0 = src, !.out = o,
                            !.cx = Coeffs(h[src].value[2]),
                            !.pools = PoolsZeroed(@, RingN),
                            !.count = @ + 1]
    /\ h0' = h
    /\ UNCHANGED h
    /\ UNCHANGED cksVars

\* The rest of switchKeysInPlace: the digits are accumulated on the pools,
\* divided by P and added to the receiver.
SwitchKeysRestStep ==
    /\ h # NoHeap
    /\ call.status = "zeroed"
    /\ \E r \in {SwitchKeysAccumulate(call.pools, call.cx, EvaKey, h[call.out])} :
          /\ h' = [h EXCEPT ![call.out] = r.el]
          /\ call' = [call EXCEPT !.status = IF r.panic THEN "panic" ELSE "ok",
                                  !.pools = r.pools]
    /\ UNCHANGED h0
    /\ UNCHANGED cksVars

PoolIds == {"A", "R"}

PoolsNext ==
    \/ \E p \in Parties : GenShareStep(p)
    \/ \E p \in Parties, c \in CtInputs : GenShareAgain(p, c)
    \/ \E src, o \in PoolIds : SwitchKeysZeroStep(src, o)
    \/ SwitchKeysRestStep

SpecPools == PoolsInit /\ [][PoolsNext]_vars

\* The share a GenShare call on a new instance leaves in shareOut.
GenShareFresh(skp, cipher, e, shareOut) ==
    LET c1 == StepSub(NewCKSProtocol(ParamsSigma), skp.in, skp.out)
        c2 == StepRead(c1, e)
        s1 == StepMulP(cipher, StepMul(c1, cipher, shareOut))
        s2 == StepAddQ(c2, cipher, s1)
    IN  StepModDown(StepLoadhP(c2), cipher, s2)

\* C23: the scratch polynomials hP and tmp of an instance are all-zero after
\* NewCKSProtocol and after every completed GenShare, and the key-switching
\* primitive starts its accumulation on zeroed pools, so that a share and a
\* key-switched element are those of a call on a new instance or evaluator
\* with the same inputs, whatever calls came before.
PoolsZeroBeforeReuse ==
    /\ \A p \in Parties :
          (pc[p] \in {"Sub", "done"}) =>
              cks[p].hP = NewPolyP /\ cks[p].tmp = NewPolyQP
    /\ \A p \in Parties :
          pc[p] = "done" =>
              share[p] = GenShareFresh(sk[p], ct, noise[p], AllocateShare)
    /\ (call.op = "switchKeysInPlace" /\ call.status = "zeroed") =>
          call.pools = ZeroPools(RingN)
    /\ (call.op = "switchKeysInPlace" /\ call.status = "ok") =>
          h[call.out] = SwitchKeysInPlace(call.cx, EvaKey, h0[call.out]).el

\* A second GenShare on the instance, for another ciphertext, has completed.
PoolsZeroBeforeReuseWitness ==
    /\ pc[1] = "done"
    /\ reads[1] = MaxPoolCalls
    /\ noise[1] # <<0, 0>>
    /\ cks[1].tmpDelta # NewPolyQ

\* A second key-switch on the evaluator has returned, the pools still
\* holding what it left.
PoolsSecondKeySwitch ==
    /\ call.op = "switchKeysInPlace"
    /\ call.status = "ok"
    /\ call.count = MaxPoolCalls
    /\ call.pools # ZeroPools(RingN)

(***************************************************************************)
(* GenShare calls of the parties running at the same time, their           *)
(* statements interleaved in any order.                                     *)
(***************************************************************************)
\* Every party working on the instance of party 1.
InstanceOfFirst(p) == 1

\* The instance party p calls GenShare on: the one its own NewCKSProtocol
\* call allocated.
InstanceOf(p) == p

\* Every party holds its key shares, its instance and a share from
\* AllocateShare, and is about to call GenShare on the same ciphertext.
ConcurrentInit ==
    /\ ct \in CtInputs
    /\ ctIn = ct
    /\ ctOut = NoCt
    /\ pc = [p \in Parties |-> "Sub"]
    /\ skCoeffs \in [Parties -> KeyPairs]
    /\ share = [s \in ShareIds |-> AllocateShare]
    /\ sk = [p \in Parties |->
                [in |-> StoredKey(skCoeffs[p].in), out |-> StoredKey(skCoeffs[p].out)]]
    /\ sigmaArg = ParamsSigma
    /\ cks = [p \in Parties |-> NewCKSProtocol(sigmaArg)]
    /\ members = [s \in ShareIds |-> {}]
    /\ noise = [p \in Parties |-> <<>>]
    /\ reads = [p \in Parties |-> 0]
    /\ steps = [p \in Parties |-> <<>>]
    /\ agg = NoAgg
    /\ ks = NoKs
    /\ h = NoHeap
    /\ h0 = NoHeap
    /\ call = NoCall

\* The next statement of party p's GenShare on the instance i, whatever the
\* other parties are doing.
GenShareStepOn(p, i) ==
    /\ pc[p] \notin {"done", "out"}
    /\ pc' = [pc EXCEPT ![p] = GenShareNext(pc[p])]
    /\ steps' = [steps EXCEPT ![p] = Append(@, pc[p])]
    /\ members' = [members EXCEPT ![p] = IF pc'[p] = "done" THEN {p} ELSE @]
    /\ CASE pc[p] = "Sub" ->
              /\ cks' = [cks EXCEPT ![i] = StepSub(@, sk[p].in, sk[p].out)]
              /\ UNCHANGED <<share, noise, reads>>
         [] pc[p] = "Mul" ->
              /\ share' = [share EXCEPT ![p] = StepMul(cks[i], ct, @)]
              /\ UNCHANGED <<cks, noise, reads>>
         [] pc[p] = "MulP" ->
              /\ share' = [share EXCEPT ![p] = StepMulP(ct, @)]
              /\ UNCHANGED <<cks, noise, reads>>
         [] pc[p] = "Read" ->
              /\ \E e \in SamplerOutputs(cks[i].gaussianSampler) :
                    /\ cks' = [cks EXCEPT ![i] = StepRead(@, e)]
                    /\ noise' = [noise EXCEPT ![p] = e]
              /\ reads' = [reads EXCEPT ![p] = @ + 1]
              /\ UNCHANGED share
         [] pc[p] = "AddQ" ->
              /\ share' = [share EXCEPT ![p] = StepAddQ(cks[i], ct, @)]
              /\ UNCHANGED <<cks, noise, reads>>
         [] pc[p] = "LoadhP" ->
              /\ cks' = [cks EXCEPT ![i] = StepLoadhP(@)]
              /\ UNCHANGED <<share, noise, reads>>
         [] pc[p] = "ModDown" ->
              /\ share' = [share EXCEPT ![p] = StepModDown(cks[i], ct, @)]
              /\ UNCHANGED <<cks, noise, reads>>
         [] pc[p] = "Zero" ->
              /\ cks' = [cks EXCEPT ![i] = StepZero(@)]
              /\ UNCHANGED <<share, noise, reads>>
    /\ UNCHANGED <<ct, ctIn, ctOut, sk, skCoeffs, sigmaArg, agg, ks>>
    /\ UNCHANGED evalVars

ConcurrentNext == \E p \in Parties : GenShareStepOn(p, InstanceOf(p))

SpecConcurrent == ConcurrentInit /\ [][ConcurrentNext]_vars

\* C24: GenShare calls of different parties, each on its own instance and
\* all on the same ciphertext, do not disturb each other: under every
\* interleaving of their statements the share of a party that has returned
\* is the share of its call run alone, and the ciphertext and the key shares
\* are what they were.
GenShareIndependent ==
    /\ \A p \in Parties :
          pc[p] = "done" =>
              share[p] = GenShareFresh(sk[p], ct, noise[p], AllocateShare)
    /\ ct = ctIn
    /\ \A p \in Parties :
          sk[p] = [in |-> StoredKey(skCoeffs[p].in), out |-> StoredKey(skCoeffs[p].out)]

\* A party has returned from a GenShare whose statements ran between those
\* of another party's call, both with noise.
GenShareIndependentWitness ==
    \E p, r \in Parties :
        /\ p # r
        /\ pc[p] = "done"
        /\ pc[r] \in {"AddQ", "LoadhP", "ModDown"}
        /\ Len(steps[r]) > 0
        /\ noise[p] # <<0, 0>>
        /\ noise[r] # <<0, 0>>
        /\ noise[r] # <<>>

(***************************************************************************)
(* genModuli and generateCKKSPrimes.  The machine word has WordBits bits,  *)
(* four more than the largest prime size accepted, as 64 is to 60.         *)
(***************************************************************************)
MaxLogQ == 8
WordBits == MaxLogQ + 4
WordSize == 2 ^ WordBits
MaxPrimeLevels == 3
MaxChain == 2

\* ring.IsPrime
IsPrime(n) == n > 1 /\ \A d \in 2..(2 ^ (WordBits \div 2)) : d * d > n \/ n % d # 0

\* The loop of generateCKKSPrimes from the candidates x (going up) and y
\* (going down), both on machine words: the primes returned.
RECURSIVE GenerateLoop(_, _, _, _, _)
GenerateLoop(x, y, twoN, levels, primes) ==
    With(IF IsPrime(y) THEN Append(primes, y) ELSE primes, LAMBDA afterY :
        IF IsPrime(y) /\ Len(afterY) = levels THEN afterY
        ELSE With(IF IsPrime(x) THEN Append(afterY, x) ELSE afterY, LAMBDA afterX :
                IF IsPrime(x) /\ Len(afterX) = levels THEN afterX
                ELSE GenerateLoop((x + twoN) % WordSize, (y - twoN) % WordSize,
                                  twoN, levels, afterX)))

\* generateCKKSPrimes(logQ, logN, levels): [primes, panic]
GenerateCKKSPrimes(logQ, logN, levels) ==
    IF logQ > MaxLogQ THEN [primes |-> <<>>, panic |-> TRUE]
    ELSE [primes |-> GenerateLoop(2 ^ logQ + 1, 2 ^ logQ + 1, 2 * (2 ^ logN), levels, <<>>),
          panic |-> FALSE]

\* The number of entries of the sequence of bit sizes equal to b.
CountOf(sizes, b) == Cardinality({i \in 1..Len(sizes) : sizes[i] = b})

\* genModuli(params): [Q, P, panic].  primes[b] holds as many primes of b
\* bits as Q and P ask for together; Q takes the first ones in its order,
\* P the following ones.
GenModuli(logN, sizesQ, sizesP) ==
    IF \E i \in 1..Len(sizesQ) : sizesQ[i] > MaxLogQ
    THEN [Q |-> <<>>, P |-> <<>>, panic |-> TRUE]
    ELSE IF \E j \in 1..Len(sizesP) : sizesP[j] > MaxLogQ
    THEN [Q |-> <<>>, P |-> <<>>, panic |-> TRUE]
    ELSE [Q |-> [i \in 1..Len(sizesQ) |->
                    GenerateCKKSPrimes(sizesQ[i], logN, CountOf(sizesQ \o sizesP, sizesQ[i]))
                        .primes[CountOf(SubSeq(sizesQ, 1, i), sizesQ[i])]],
          P |-> [j \in 1..Len(sizesP) |->
                    GenerateCKKSPrimes(sizesP[j], logN, CountOf(sizesQ \o sizesP, sizesP[j]))
                        .primes[CountOf(sizesQ \o SubSeq(sizesP, 1, j), sizesP[j])]],
          panic |-> FALSE]

\* The sequences of at most MaxChain bit sizes.
SizeChains == UNION {[1..n -> 2..(MaxLogQ + 1)] : n \in 1..MaxChain}

NoPrimesCall == [op |-> "none", op0 |-> Nil, op1 |-> Nil, out |-> Nil, key |-> FALSE,
                 status |-> "none", reason |-> "", mul |-> NoMul,
                 logQ |-> 0, logN |-> 0, levels |-> 0, sizesQ |-> <<>>, sizesP |-> <<>>,
                 primes |-> <<>>, Q |-> <<>>, P |-> <<>>]

PrimesInit ==
    /\ h = NoHeap
    /\ h0 = NoHeap
    /\ call = NoPrimesCall
    /\ CKSIdle

CallGenerateCKKSPrimes(logQ, logN, levels) ==
    /\ call.status = "none"
    /\ \E r \in {GenerateCKKSPrimes(logQ, logN, levels)} :
          call' = [call EXCEPT !.op = "generateCKKSPrimes",
                               !.status = IF r.panic THEN "panic" ELSE "ok",
                               !.logQ = logQ, !.logN = logN, !.levels = levels,
                               !.primes = r.primes]
    /\ UNCHANGED <<h, h0>>
    /\ UNCHANGED cksVars

CallGenModuli(logN, sizesQ, sizesP) ==
    /\ call.status = "none"
    /\ \E r \in {GenModuli(logN, sizesQ, sizesP)} :
          call' = [call EXCEPT !.op = "genModuli",
                               !.status = IF r.panic THEN "panic" ELSE "ok",
                               !.logN = logN, !.sizesQ = sizesQ, !.sizesP = sizesP,
                               !.Q = r.Q, !.P = r.P]
    /\ UNCHANGED <<h, h0>>
    /\ UNCHANGED cksVars

PrimesNext ==
    \/ \E logQ \in 2..(MaxLogQ + 1), logN \in 1..MaxLogQ, levels \in 1..MaxPrimeLevels :
          logN < logQ /\ CallGenerateCKKSPrimes(logQ, logN, levels)
    \/ \E logN \in {1, 3}, sizesQ, sizesP \in SizeChains :
          /\ \A i \in 1..Len(sizesQ) : logN < sizesQ[i]
          /\ \A j \in 1..Len(sizesP) : logN < sizesP[j]
          /\ CallGenModuli(logN, sizesQ, sizesP)

SpecPrimes == PrimesInit /\ [][PrimesNext]_vars

PairwiseDistinct(seq) == \A i, j \in 1..Len(seq) : i # j => seq[i] # seq[j]

\* C25: generateCKKSPrimes(logQ, logN, levels), for logN < logQ and
\* levels >= 1, returns exactly `levels` primes, pairwise distinct and each
\* congruent to 1 modulo 2N; genModuli returns Q and P of the lengths asked
\* for, all their moduli pairwise distinct.
PrimesPairwiseDistinct ==
    /\ (call.op = "generateCKKSPrimes" /\ call.status = "ok") =>
          /\ Len(call.primes) = call.levels
          /\ \A i \in 1..Len(call.primes) :
                IsPrime(call.primes[i]) /\ call.primes[i] % (2 * (2 ^ call.logN)) = 1
          /\ PairwiseDistinct(call.primes)
    /\ (call.op = "genModuli" /\ call.status = "ok") =>
          /\ Len(call.Q) = Len(call.sizesQ)
          /\ Len(call.P) = Len(call.sizesP)
          /\ PairwiseDistinct(call.Q \o call.P)

(***************************************************************************)
(* The loop of switchKeysInPlace and switchKeyHoisted over the digits, on  *)
(* one coefficient of a P-domain accumulator: which digits and keys it     *)
(* takes, when it reduces, and how large the accumulator gets.  Words and  *)
(* moduli are scaled as for the prime generation: WordBits stands for 64,  *)
(* MaxLogQ + 1 for 61.                                                      *)
(***************************************************************************)
MaxCadenceLevel == 22
CadenceAlphas == {1, 2}

\* A loop that reduces after the digits 0, 8, 16, ...
ReduceDueAtEight(reduce) == reduce % 8 = 0

\* if reduce&7 == 1: the loop reduces after the digits 1, 9, 17, ...
ReduceDue(reduce) == reduce % 8 = 1

\* if (reduce-1)&7 != 1, after the loop
FinalReduceDue(reduce) == (reduce - 1) % 8 # 1

\* uint64(math.Ceil(float64(level+1) / float64(alpha)))
CeilBeta(level, alpha) == (level + 1 + alpha - 1) \div alpha

\* Montgomery products that are left below 2q.
ProductsLazy(q) == {0, 2 * q - 1}

\* ring.MRed(key, c2, pj, mredParams): a value below q; the smallest and
\* the largest one.
ProductsOf(q) == {0, q - 1}

\* The largest modulus nine values below which fit a word, the first one
\* above it, a modulus of MaxLogQ bits and the largest one of MaxLogQ + 1.
SafeModulus == (WordSize - 1) \div 9 + 1
CadenceModuli == {2 ^ MaxLogQ + 1, SafeModulus, SafeModulus + 1, 2 ^ (MaxLogQ + 1) - 1}

NoCadenceCall == [op |-> "switchKeysInPlace", op0 |-> Nil, op1 |-> Nil, out |-> Nil,
                  key |-> TRUE, status |-> "none", reason |-> "", mul |-> NoMul,
                  level |-> 0, alpha |-> 1, beta |-> 0, q |-> 1, reduce |-> 0,
                  acc |-> 0, digits |-> <<>>, since |-> 0, most |-> 0, peak |-> 0,
                  afterLast |-> 0, overflow |-> FALSE]

CadenceInit ==
    /\ h = NoHeap
    /\ h0 = NoHeap
    /\ call = NoCadenceCall
    /\ CKSIdle

\* The entry of the primitive at the given level: the pools are zeroed,
\* reduce = 0 and beta is computed.
CadenceStart(level, alpha, q) ==
    /\ call.status = "none"
    /\ call' = [call EXCEPT !.status = "loop", !.level = level, !.alpha = alpha,
                            !.beta = CeilBeta(level, alpha), !.q = q]
    /\ UNCHANGED <<h, h0>>
    /\ UNCHANGED cksVars

\* One turn of the loop: digit i times evakey[i] is added with +=, the
\* accumulator is reduced when the cadence says so, reduce++.  most and peak
\* keep the largest number of products added since a reduction and the
\* largest sum the += computed.
CadenceDigit(m) ==
    /\ call.status = "loop"
    /\ call.reduce < call.beta
    /\ call' = [call EXCEPT
                  !.digits = Append(@, [digit |-> call.reduce, key |-> call.reduce]),
                  !.acc = IF ReduceDue(call.reduce) THEN ((@ + m) % WordSize) % call.q
                          ELSE (@ + m) % WordSize,
                  !.overflow = @ \/ call.acc + m > WordSize - 1,
                  !.most = MaxUint64(@, call.since + 1),
                  !.peak = MaxUint64(@, call.acc + m),
                  !.since = IF ReduceDue(call.reduce) THEN 0 ELSE @ + 1,
                  !.afterLast = IF ReduceDue(call.reduce) THEN 1 ELSE 0,
                  !.reduce = @ + 1]
    /\ UNCHANGED <<h, h0>>
    /\ UNCHANGED cksVars

\* After the loop: the last reduction if it is due; the accumulators go to
\* the basis extender.
CadenceFinal ==
    /\ call.status = "loop"
    /\ call.reduce >= call.beta
    /\ call' = [call EXCEPT
                  !.status = "extend",
                  !.acc = IF FinalReduceDue(call.reduce) THEN @ % call.q ELSE @,
                  !.since = IF FinalReduceDue(call.reduce) THEN 0 ELSE @,
                  !.afterLast = IF FinalReduceDue(call.reduce) THEN @ + 1 ELSE @]
    /\ UNCHANGED <<h, h0>>
    /\ UNCHANGED cksVars

CadenceNext ==
    \/ \E level \in 0..MaxCadenceLevel, alpha \in CadenceAlphas, q \in CadenceModuli :
          CadenceStart(level, alpha, q)
    \/ \E m \in ProductsOf(call.q) : CadenceDigit(m)
    \/ CadenceFinal

SpecCadence == CadenceInit /\ [][CadenceNext]_vars

\* C26: at level l the primitive takes exactly beta = ceil((l+1)/alpha)
\* digits, digit i with the key pair evakey[i]; never more than 8 digit
\* products are added to an accumulator since its last reduction; and the
\* accumulators handed to the basis extender have been reduced exactly once
\* since the last digit was added.
ReductionCadence ==
    /\ call.most <= 8
    /\ \A k \in 1..Len(call.digits) :
          call.digits[k] = [digit |-> k - 1, key |-> k - 1]
    /\ call.status = "extend" =>
          /\ call.beta >= 1
          /\ (call.beta - 1) * call.alpha < call.level + 1
          /\ call.level + 1 <= call.beta * call.alpha
          /\ Len(call.digits) = call.beta
          /\ call.afterLast = 1
          /\ call.acc < call.q

\* The loop has reduced twice and the last digit did not fall on a
\* reduction of the loop.
ReductionCadenceWitness ==
    /\ call.status = "extend"
    /\ call.beta > 10
    /\ ~ReduceDue(call.beta - 1)
    /\ call.level + 1 < call.beta * call.alpha
    /\ call.most = 8
    /\ call.acc > 0

MixedDegreeReturned ==
    /\ call.status = "ok"
    /\ call.op \in {"Add", "Sub"}
    /\ ElDegree(h0[call.op0]) # ElDegree(h0[call.op1])

\* C28: after Add or Sub of operands of different degree, every part of the
\* result above the smaller degree is the part of the higher-degree operand
\* (as the alignment of the scales left it), negated when it comes from op1
\* of a Sub, on every row of the result; for a distinct receiver and for a
\* receiver that is op0 or op1.
ExcessPartsCopied ==
    MixedDegreeReturned =>
        LET a == h0[call.op0]
            b == h0[call.op1]
            high == IF ElDegree(a) > ElDegree(b) THEN a ELSE b
            low == IF ElDegree(a) > ElDegree(b) THEN b ELSE a
            sign == IF call.op = "Sub" /\ ElDegree(a) < ElDegree(b) THEN -1 ELSE 1
        IN  \A u \in (ElDegree(low) + 2)..(ElDegree(high) + 1),
               i \in 1..(ElLevel(h[call.out]) + 1), k \in Slots :
                  h[call.out].value[u].rows[i][k] =
                      (sign * AlignFactor(high, low) * high.value[u].rows[i][k]) % QMod[i]

(***************************************************************************)
(* MulRelin statement by statement, every product written to the           *)
(* polynomial the code writes it to: a part of the receiver, which may be  *)
(* a part of an operand, or a polynomial of evaluator.ringpool.            *)
(* A polynomial is named <<"ringpool", n>> or <<element id, part>>.        *)
(***************************************************************************)
RingPoolId == "ringpool"
NewRingPool == [n \in 1..5 |-> NewPolyQ]

PolyAt(st, ref) ==
    IF ref[1] = RingPoolId THEN st.pool[ref[2] + 1]
    ELSE Coeffs(st.h[ref[1]].value[ref[2] + 1])

PolyPut(st, ref, poly) ==
    IF ref[1] = RingPoolId THEN [st EXCEPT !.pool[ref[2] + 1] = poly]
    ELSE [st EXCEPT !.h[ref[1]].value[ref[2] + 1] = SetCoeffs(@, poly)]

StoreMForm(st, level, src, dst) ==
    PolyPut(st, dst, MFormLvl(level, PolyAt(st, src), PolyAt(st, dst)))

StoreMul(st, level, a, b, dst) ==
    PolyPut(st, dst, MulCoeffsMontgomeryLvl(level, PolyAt(st, a), PolyAt(st, b), PolyAt(st, dst)))

StoreMulAdd(st, level, a, b, dst) ==
    PolyPut(st, dst, MulCoeffsMontgomeryAndAddNoModLvl(level, PolyAt(st, a), PolyAt(st, b),
                                                       PolyAt(st, dst)))

StoreAdd(st, level, a, b, dst) ==
    PolyPut(st, dst, AddLvl(level, PolyAt(st, a), PolyAt(st, b), PolyAt(st, dst)))

StoreCopy(st, level, src, dst) ==
    PolyPut(st, dst, CopyLvl(level, PolyAt(st, src), PolyAt(st, dst)))

\* c0 and c1 written straight into the receiver's parts, whether or not the
\* receiver is an operand.
ProductTargetDirect(opOut, aliased, keyed, u) ==
    IF u = 2 /\ (aliased \/ keyed) THEN <<RingPoolId, 4>> ELSE <<opOut, u>>

\* Where MulRelin writes c0, c1, c2 (u = 0, 1, 2): the receiver's parts when
\* the receiver is neither operand (c2 in ringpool[4] when there is a key),
\* ringpool[2], ringpool[3], ringpool[4] when it is one of them.
ProductTarget(opOut, aliased, keyed, u) ==
    IF aliased \/ (keyed /\ u = 2) THEN <<RingPoolId, u + 2>> ELSE <<opOut, u>>

\* The products of two degree-1 operands, statement by statement.
TensorStatements(st, level, op0, op1, opOut, keyed) ==
    With(opOut \in {op0, op1}, LAMBDA aliased :
    With(StoreMForm(st, level, <<op0, 0>>, <<RingPoolId, 0>>), LAMBDA s1 :
    With(StoreMForm(s1, level, <<op0, 1>>, <<RingPoolId, 1>>), LAMBDA s2 :
    With(StoreMul(s2, level, <<RingPoolId, 0>>, <<op1, 0>>,
                  ProductTarget(opOut, aliased, keyed, 0)), LAMBDA s3 :
    With(StoreMul(s3, level, <<RingPoolId, 0>>, <<op1, 1>>,
                  ProductTarget(opOut, aliased, keyed, 1)), LAMBDA s4 :
    With(IF op0 = op1
         THEN StoreAdd(s4, level, ProductTarget(opOut, aliased, keyed, 1),
                       ProductTarget(opOut, aliased, keyed, 1),
                       ProductTarget(opOut, aliased, keyed, 1))
         ELSE StoreMulAdd(s4, level, <<RingPoolId, 1>>, <<op1, 0>>,
                          ProductTarget(opOut, aliased, keyed, 1)), LAMBDA s5 :
    StoreMul(s5, level, <<RingPoolId, 1>>, <<op1, 1>>,
             ProductTarget(opOut, aliased, keyed, 2))))))))

\* The end of the ciphertext-ciphertext case: with a key c0 and c1 are
\* copied and c2 is key-switched onto the receiver; without one a receiver
\* that is an operand is resized and takes the three products.
TensorFinish(st, level, op0, op1, evakey, opOut) ==
    With(opOut \in {op0, op1}, LAMBDA aliased :
    IF ~evakey.isNil THEN
        With(StoreCopy(StoreCopy(st, level, ProductTarget(opOut, aliased, TRUE, 0), <<opOut, 0>>),
                       level, ProductTarget(opOut, aliased, TRUE, 1), <<opOut, 1>>), LAMBDA s8 :
        With(SwitchKeysInPlace(SubSeq(PolyAt(s8, ProductTarget(opOut, aliased, TRUE, 2)), 1, NumQ),
                               evakey.evakey, s8.h[opOut]), LAMBDA r :
            IF r.panic THEN Panic([s8.h EXCEPT ![opOut] = r.el], "index out of range")
            ELSE Return([s8.h EXCEPT ![opOut] = r.el])))
    ELSE IF aliased THEN
        With([st EXCEPT !.h[opOut] = Resize(@, 2)], LAMBDA s7 :
            Return(StoreCopy(StoreCopy(StoreCopy(s7,
                        level, <<RingPoolId, 2>>, <<opOut, 0>>),
                        level, <<RingPoolId, 3>>, <<opOut, 1>>),
                        level, <<RingPoolId, 4>>, <<opOut, 2>>).h))
    ELSE Return(st.h))

\* MulRelin(op0, op1, evakey, ctOut) on the heap, statement by statement.
MulRelinStatements(hp, op0, op1, evakey, opOut) ==
    IF GetElemAndCheckBinary(hp, op0, op1, opOut) # ""
    THEN Panic(hp, GetElemAndCheckBinary(hp, op0, op1, opOut)) ELSE
    With(MulRelinLevel(hp, op0, op1, opOut), LAMBDA level :
    With(MulRelinDropLevel(hp, op0, op1, opOut), LAMBDA h1 :
    IF ElDegree(h1[op0]) > 1 \/ ElDegree(h1[op1]) > 1
    THEN Panic(h1, "cannot mul -> input element and output element must be of degree 0 or 1")
    ELSE IF ~h1[op0].isNTT THEN Panic(h1, "cannot mul -> op0 must be in NTT to multiply")
    ELSE IF ~h1[op1].isNTT THEN Panic(h1, "cannot mul -> op1 must be in NTT to multiply")
    ELSE
    With([h1 EXCEPT ![opOut].scale = h1[op0].scale * h1[op1].scale], LAMBDA h2 :
    IF ElDegree(h2[op0]) + ElDegree(h2[op1]) = 2 THEN
        With([h |-> IF opOut \notin {op0, op1} /\ evakey.isNil
                    THEN [h2 EXCEPT ![opOut] = Resize(@, 2)] ELSE h2,
              pool |-> NewRingPool], LAMBDA st :
            TensorFinish(TensorStatements(st, level, op0, op1, opOut, ~evakey.isNil),
                         level, op0, op1, evakey, opOut))
    ELSE
        With([h |-> h2, pool |-> NewRingPool], LAMBDA st :
        With(IF ElDegree(h2[op0]) = 1 THEN <<op1, op0>> ELSE <<op0, op1>>, LAMBDA tmp :
        With(StoreMForm(st, level, <<tmp[1], 0>>, <<RingPoolId, 0>>), LAMBDA s1 :
        With(StoreMul(s1, level, <<RingPoolId, 0>>, <<tmp[2], 0>>, <<opOut, 0>>), LAMBDA s2 :
            Return(StoreMul(s2, level, <<RingPoolId, 0>>, <<tmp[2], 1>>, <<opOut, 1>>).h))))))))

FreshId == "R"

\* The receiver MulRelinNew creates.
NewMulReceiver(hp, op0, op1) ==
    NewCiphertext(1, MinUint64(ElLevel(hp[op0]), ElLevel(hp[op1])),
                  hp[op0].scale + hp[op1].scale)

\* MulRelinNew(op0, op1, evakey) on the heap, the new element at FreshId.
MulRelinNew(hp, op0, op1, evakey) ==
    MulRelinStatements([hp EXCEPT ![FreshId] = NewMulReceiver(hp, op0, op1)],
                       op0, op1, evakey, FreshId)

InPlaceIds == {"A", "B"}

\* Two operands of degree 0 or 1 in the NTT domain at any levels.
InPlaceInit ==
    /\ \E dA, dB \in 0..1, lA, lB \in 0..(NumQ - 1), sB \in {DefaultScale, DefaultScale + 2} :
          h = [id \in ElementIds |->
                 CASE id = "A" -> InputElement(1, dA, lA, lA + 1, DefaultScale, TRUE)
                   [] id = "B" -> InputElement(2, dB, lB, lB + 1, sB, TRUE)
                   [] OTHER -> NewCtxPool]
    /\ h0 = h
    /\ call = NoCall
    /\ CKSIdle

\* MulRelin(a, b, k, o) with the receiver one of the operands.
CallMulRelinInPlace(a, b, k, o) ==
    /\ o \in {a, b}
    /\ Called(MulRelinStatements(h, a, b, KeyOf(k), o), "MulRelin", a, b, o, k # Nil)

\* MulRelinNew(a, b, k)
CallMulRelinNew(a, b, k) ==
    Called(MulRelinNew(h, a, b, KeyOf(k)), "MulRelinNew", a, b, FreshId, k # Nil)

InPlaceNext ==
    \/ \E a, b, o \in InPlaceIds, k \in KeyArgs : CallMulRelinInPlace(a, b, k, o)
    \/ \E a, b \in InPlaceIds, k \in KeyArgs : CallMulRelinNew(a, b, k)

SpecInPlace == InPlaceInit /\ [][InPlaceNext]_vars

\* The visible residues, degree, level and scale of an element.
Visible(el) ==
    [value |-> [u \in 1..Len(el.value) |-> Coeffs(el.value[u])], scale |-> el.scale]

\* C29: a MulRelin whose receiver is one of its operands, the squaring
\* MulRelin(ct, ct, key, ct) included, leaves in the receiver the residues,
\* degree, level and scale that MulRelin of the same operands leaves in a
\* new receiver, with a key and with a nil key.
MulRelinInPlaceSafe ==
    (call.op = "MulRelin" /\ call.status = "ok") =>
        LET ref == MulRelinNew(h0, call.op0, call.op1,
                               KeyOf(IF call.key THEN "evakey" ELSE Nil))
        IN  /\ ~ref.panic
            /\ Visible(h[call.out]) = Visible(ref.h[FreshId])

\* A squaring in place with a key, and a product in place on op1, have
\* returned above level 0.
MulRelinInPlaceSafeWitness ==
    /\ call.op = "MulRelin"
    /\ call.status = "ok"
    /\ call.key
    /\ call.out = call.op1
    /\ ElDegree(h0[call.op0]) = 1
    /\ ElDegree(h0[call.op1]) = 1
    /\ ElLevel(h[call.out]) > 0

(***************************************************************************)
(* TernarySampler in probability mode: computeMatrixTernary, sampleProba   *)
(* for p # 0.5 and kysampling.  The precision of 56 bits is scaled to      *)
(* Precision; p is counted in halves of 2^-Precision, so that uint64(g)    *)
(* truncates.  A byte is a number in 0..255, a buffer a sequence of bytes. *)
(***************************************************************************)
Precision == 9
ProbaN == 2
MaxClocks == 2
MaxProbaReads == 2

Bit(byte, i) == (byte \div (2 ^ i)) % 2

\* computeMatrixTernary(p): row 0 the expansion of p, row 1 that of 1 - p.
ComputeMatrixTernary(p2) ==
    With(p2 \div 2, LAMBDA x0 :
    With((2 ^ (Precision + 1) - p2) \div 2, LAMBDA x1 :
        << [j \in 1..(Precision - 1) |-> (x0 \div (2 ^ (Precision - j))) % 2],
           [j \in 1..(Precision - 1) |-> (x1 \div (2 ^ (Precision - j))) % 2] >>))

\* A position of the random stream: <<Clock count, byte, bit>>.
StreamPos(clocks, bytePointer, bit) == <<clocks, bytePointer, bit>>
Linear(pos) == (pos[1] * ProbaN + pos[2]) * 8 + pos[3]

KyResult(coeff, sign, buf, pointer, bytePointer, clocks, signAt, decidedAt, panic, starved) ==
    [coeff |-> coeff, sign |-> sign, randomBytes |-> buf, pointer |-> pointer,
     bytePointer |-> bytePointer, clocks |-> clocks, signAt |-> signAt,
     decidedAt |-> decidedAt, panic |-> panic, starved |-> starved]

\* kysampling from bit i of randomBytes[bytePointer] with the walk at (d, col);
\* prng.Clock(randomBytes) writes refills[clocks + 1].
RECURSIVE KyWalk(_, _, _, _, _, _, _, _, _)
KyWalk(matrixProba, buf, i, bytePointer, byteLength, d, col, clocks, refills) ==
    IF i = 8 THEN
        IF bytePointer + 1 >= byteLength
        THEN IF clocks >= Len(refills)
             THEN KyResult(0, 0, buf, 0, 0, clocks, <<>>, <<>>, FALSE, TRUE)
             ELSE KyWalk(matrixProba, refills[clocks + 1], 0, 0, byteLength, d, col,
                         clocks + 1, refills)
        ELSE KyWalk(matrixProba, buf, 0, bytePointer + 1, byteLength, d, col, clocks, refills)
    ELSE
    With(2 * d + 1 - Bit(buf[bytePointer + 1], i), LAMBDA d1 :
    IF d1 > Len(matrixProba) - 1
    THEN KyWalk(matrixProba, buf, i, bytePointer, byteLength, 0, 0, clocks, refills)
    ELSE IF col >= Precision - 1
    THEN KyResult(0, 0, buf, i, bytePointer, clocks, <<>>, <<>>, TRUE, FALSE)
    ELSE
    With(d1 - matrixProba[2][col + 1], LAMBDA d2 :
    With(d2 - matrixProba[1][col + 1], LAMBDA d3 :
    IF d2 # -1 /\ d3 # -1
    THEN KyWalk(matrixProba, buf, i + 1, bytePointer, byteLength, d3, col + 1, clocks, refills)
    ELSE
    With(IF d2 = -1 THEN 1 ELSE 0, LAMBDA row :
    IF i = 7 THEN
        IF bytePointer + 1 >= byteLength
        THEN IF clocks >= Len(refills)
             THEN KyResult(0, 0, buf, 0, 0, clocks, <<>>, <<>>, FALSE, TRUE)
             ELSE KyResult(row, Bit(refills[clocks + 1][1], 0), refills[clocks + 1], 0 + 1, 0,
                           clocks + 1, StreamPos(clocks + 1, 0, 0),
                           StreamPos(clocks, bytePointer, i), FALSE, FALSE)
        ELSE KyResult(row, Bit(buf[bytePointer + 2], 0), buf, 0 + 1, bytePointer + 1,
                      clocks, StreamPos(clocks, bytePointer + 1, 0),
                      StreamPos(clocks, bytePointer, i), FALSE, FALSE)
    ELSE KyResult(row, Bit(buf[bytePointer + 1], i + 1), buf, i + 1, bytePointer,
                  clocks, StreamPos(clocks, bytePointer, i + 1),
                  StreamPos(clocks, bytePointer, i), FALSE, FALSE)))))

KySampling(matrixProba, buf, pointer, bytePointer, byteLength, clocks, refills) ==
    KyWalk(matrixProba, buf, pointer, bytePointer, byteLength, 0, 0, clocks, refills)

\* index = (coeff & (sign ^ 1)) | ((sign & coeff) << 1)
TernaryIndex(coeff, sign) == coeff * (1 - sign) + 2 * (sign * coeff)

ByteValues == {0, 255, 90, 128}
Buffers == [1..ProbaN -> ByteValues]
\* p in halves of 2^-Precision: tiny, a quarter, just above a half, three
\* quarters, almost one.
Probabilities ==
    {1, 2, 3, 2 ^ (Precision - 1), 2 ^ Precision + 1, 3 * 2 ^ (Precision - 1),
     2 ^ (Precision + 1) - 1}

NoProbaCall ==
    [op |-> "none", status |-> "none", reads |-> 0, count |-> 0, randomBytes |-> <<>>,
     pointer |-> 0, bytePointer |-> 0, clocks |-> 0, signAt |-> <<>>, decidedAt |-> <<>>,
     indexes |-> <<>>]

\* NewTernarySampler(prng, baseRing, p, montgomery), p neither 0 nor 0.5.
ProbaInit ==
    /\ \E p2 \in Probabilities :
          h = [p |-> p2, matrixProba |-> ComputeMatrixTernary(p2)]
    /\ h0 = h
    /\ call = NoProbaCall
    /\ CKSIdle

\* sampleProba up to its loop: a new buffer, clocked, read from bit 0.
SampleProbaStart ==
    /\ call.status \in {"none", "done"}
    /\ call.reads < MaxProbaReads
    /\ \E buf \in Buffers :
          call' = [NoProbaCall EXCEPT !.op = "sampleProba", !.status = "sampling",
                                      !.reads = call.reads + 1, !.randomBytes = buf]
    /\ UNCHANGED <<h, h0>>

\* One iteration of the loop of sampleProba: a kysampling draw.
SampleProbaDraw ==
    /\ call.status \in {"sampling", "drawn"}
    /\ call.count < ProbaN
    /\ \E refills \in [1..MaxClocks -> Buffers] :
       \E r \in {KySampling(h.matrixProba, call.randomBytes, call.pointer, call.bytePointer,
                            ProbaN, call.clocks, SubSeq(refills, 1, MaxClocks - call.clocks))} :
          /\ ~r.starved
          /\ call' = IF r.panic
                     THEN [call EXCEPT !.status = "panic"]
                     ELSE [call EXCEPT !.status = "drawn", !.count = @ + 1,
                                       !.randomBytes = r.randomBytes, !.pointer = r.pointer,
                                       !.bytePointer = r.bytePointer, !.clocks = r.clocks,
                                       !.signAt = r.signAt, !.decidedAt = r.decidedAt,
                                       !.indexes = Append(@, TernaryIndex(r.coeff, r.sign))]
    /\ UNCHANGED <<h, h0>>

\* The loop of sampleProba ends.
SampleProbaEnd ==
    /\ call.status = "drawn"
    /\ call.count = ProbaN
    /\ call' = [call EXCEPT !.status = "done"]
    /\ UNCHANGED <<h, h0>>

ProbaNext ==
    /\ (SampleProbaStart \/ SampleProbaDraw \/ SampleProbaEnd)
    /\ UNCHANGED cksVars

SpecProba == ProbaInit /\ [][ProbaNext]_vars

\* C30: after a kysampling draw the position returned for the next draw is
\* strictly after the bit used as the sign, the bit pointer is in 0..7 and
\* the byte pointer is below the buffer length.
DrawsConsumeDisjointBits ==
    call.status = "drawn" =>
        /\ Linear(StreamPos(call.clocks, call.bytePointer, call.pointer)) > Linear(call.signAt)
        /\ call.pointer \in 0..7
        /\ call.bytePointer < ProbaN

====
